---- MODULE Spec2Model ----
(***************************************************************************)
(* Model of the Nutrilens-Ai meal analysis pipeline:                       *)
(*   POST /api/analyze  (src/src/app/api/analyze/route.ts)                 *)
(*   the agents         (src/src/lib/agents/*.ts)                          *)
(*   the evaluators     (src/src/lib/opik/evaluators.ts)                   *)
(*                                                                         *)
(* Numbers of the unit interval are kept as integers in thirtieths, so     *)
(* that 0.3 = 9, 0.5 = 15, 1 = 30 and the mean of three scores that are    *)
(* multiples of 0.1 is exact.  A JavaScript value that may be a number,    *)
(* NaN or undefined is a record [k, n].                                    *)
(***************************************************************************)
EXTENDS Integers, Sequences, FiniteSets, TLC

\* ------------------------------------------------------------------ bounds
\* longest item list a recognition reply holds (pure-function checks)
MaxItems == 3
\* longest item list a recognition reply holds (pipeline)
MaxPipeItems == 2
\* longest estimate list an estimation reply holds
MaxEstimates == 2
\* longest prompt list a reflection reply holds
MaxPrompts == 6
\* longest nudge list a nudge reply holds
MaxNudges == 4
\* longest estimate list handed to calculateTotalNutrition (pure-function checks)
MaxTotalled == 3
\* longest item list handed to generatePositiveReinforcement (pure-function checks)
MaxCategorised == 5
\* largest maxAttempts handed to retry
MaxAttempts == 4
\* longest list of equally confident items whose confidences are averaged
MaxAveraged == 10
\* concurrent calls of connectToDatabase
MaxCallers == 3
\* calls of closeDatabaseConnection
MaxCloses == 1

\* ------------------------------------------------------- program constants
\* 1.0, the upper clamp of every confidence-like value
ONE == 30
\* the confidence threshold POST passes to recognizeFoodWithValidation (0.3)
MinConfidence == 9
\* the neutral score of a judge whose call threw or whose reply is no number
NeutralScore == 15
\* relevance of a prompt whose raw relevance is falsy (0.5)
DefaultRelevance == 15
\* slice(0, 5) of the reflection prompts
PromptCap == 5
\* slice(0, 3) of the generated nudges
NudgeCap == 3

\* ------------------------------------------------------ JavaScript values
Num(n) == [k |-> "num", n |-> n]
NaN == [k |-> "nan", n |-> 0]
Undef == [k |-> "undef", n |-> 0]

\* -------------------------------------------------- double-precision numbers
\* A JavaScript number is an IEEE 754 double.  The small integers are Num(n);
\* a positive number that is no small integer is Dbl(m, e) = m * 2^e, with m
\* an odd natural given by its bits, least significant first.
\* the significant bits of a double
MantissaBits == 53

Dbl(m, e) == [k |-> "dbl", m |-> m, e |-> e]

IsNum(x) == x.k \in {"num", "dbl"}

RECURSIVE BitsOfNat(_)
BitsOfNat(n) == IF n = 0 THEN <<>> ELSE <<n % 2>> \o BitsOfNat(n \div 2)

RECURSIVE NatOfBits(_)
NatOfBits(b) == IF b = <<>> THEN 0 ELSE Head(b) + 2 * NatOfBits(Tail(b))

\* the bits without their most significant zeros
RECURSIVE TrimHigh(_)
TrimHigh(b) ==
  IF b = <<>> THEN <<>>
  ELSE IF b[Len(b)] = 0 THEN TrimHigh(SubSeq(b, 1, Len(b) - 1))
  ELSE b

\* m * 2^d
ShiftLeft(b, d) == [i \in 1..d |-> 0] \o b

\* a + b + carry, exactly
RECURSIVE AddBits(_, _, _)
AddBits(a, b, carry) ==
  IF a = <<>> /\ b = <<>> THEN (IF carry = 1 THEN <<1>> ELSE <<>>)
  ELSE LET x == IF a = <<>> THEN 0 ELSE Head(a)
           y == IF b = <<>> THEN 0 ELSE Head(b)
           sum == x + y + carry
       IN  <<sum % 2>>
             \o AddBits(IF a = <<>> THEN <<>> ELSE Tail(a),
                        IF b = <<>> THEN <<>> ELSE Tail(b),
                        sum \div 2)

\* round to nearest, ties to even, to p significant bits
RoundBits(bits, e, p) ==
  LET b == TrimHigh(bits)
  IN  IF Len(b) <= p THEN [m |-> b, e |-> e]
      ELSE LET k == Len(b) - p
               kept == SubSeq(b, k + 1, Len(b))
               half == b[k] = 1
               sticky == \E i \in 1..(k - 1) : b[i] = 1
               up == half /\ (sticky \/ kept[1] = 1)
           IN  [m |-> IF up THEN AddBits(kept, <<1>>, 0) ELSE kept, e |-> e + k]

RECURSIVE StripLow(_, _)
StripLow(b, e) ==
  IF b # <<>> /\ Head(b) = 0 THEN StripLow(Tail(b), e + 1) ELSE [m |-> b, e |-> e]

\* the one value that stands for m * 2^e: Num(n) for an integer below 2^30
Canonical(bits, e) ==
  LET c == StripLow(TrimHigh(bits), e)
  IN  IF c.m = <<>> THEN Num(0)
      ELSE IF c.e >= 0 /\ Len(c.m) + c.e <= 30 THEN Num(NatOfBits(ShiftLeft(c.m, c.e)))
      ELSE Dbl(c.m, c.e)

\* mantissa and exponent of a number that is not negative
Parts(x) == IF x.k = "num" THEN [m |-> BitsOfNat(x.n), e |-> 0] ELSE [m |-> x.m, e |-> x.e]

\* both mantissas at the smaller of the two exponents
Aligned(x, y) ==
  LET a == Parts(x)
      b == Parts(y)
      lo == IF a.e <= b.e THEN a.e ELSE b.e
  IN  [a |-> ShiftLeft(a.m, a.e - lo), b |-> ShiftLeft(b.m, b.e - lo), e |-> lo]

\* a >= b of naturals of the same number of bits
RECURSIVE BitsGeSameLen(_, _)
BitsGeSameLen(a, b) ==
  IF a = <<>> THEN TRUE
  ELSE IF a[Len(a)] # b[Len(b)] THEN a[Len(a)] > b[Len(b)]
  ELSE BitsGeSameLen(SubSeq(a, 1, Len(a) - 1), SubSeq(b, 1, Len(b) - 1))

BitsGe(a, b) ==
  LET x == TrimHigh(a)
      y == TrimHigh(b)
  IN  IF Len(x) # Len(y) THEN Len(x) > Len(y) ELSE BitsGeSameLen(x, y)

\* x >= y of two numbers
NumGe(x, y) ==
  IF x.k = "num" /\ y.k = "num" THEN x.n >= y.n
  ELSE IF x.k = "num" /\ x.n < 0 THEN FALSE
  ELSE IF y.k = "num" /\ y.n < 0 THEN TRUE
  ELSE LET al == Aligned(x, y) IN BitsGe(al.a, al.b)

\* the bits of a natural written in hexadecimal digits, least significant first
RECURSIVE BitsOfHex(_)
BitsOfHex(digits) ==
  IF digits = <<>> THEN <<>>
  ELSE [i \in 1..4 |-> (Head(digits) \div (2 ^ (i - 1))) % 2] \o BitsOfHex(Tail(digits))

\* the doubles 0.1, 0.2 and 0.3: 0x1999999999999A * 2^-56, the same * 2^-55,
\* and 0x13333333333333 * 2^-54
Tenth == Canonical(BitsOfHex(<<10, 9, 9, 9, 9, 9, 9, 9, 9, 9, 9, 9, 9, 1>>), -56)
Fifth == Canonical(BitsOfHex(<<10, 9, 9, 9, 9, 9, 9, 9, 9, 9, 9, 9, 9, 1>>), -55)
ThreeTenths == Canonical(BitsOfHex(<<3, 3, 3, 3, 3, 3, 3, 3, 3, 3, 3, 3, 3, 1>>), -54)

\* the double 0.8: 0x1999999999999A * 2^-53
FourFifths == Canonical(BitsOfHex(<<10, 9, 9, 9, 9, 9, 9, 9, 9, 9, 9, 9, 9, 1>>), -53)

\* n * bits, exactly
RECURSIVE TimesBits(_, _)
TimesBits(n, bits) == IF n = 0 THEN <<>> ELSE AddBits(TimesBits(n - 1, bits), bits, 0)

\* n * x of JavaScript numbers, n a natural and x not negative: the exact
\* product, rounded to the nearest double
JsTimes(n, x) ==
  LET p == Parts(x)
      r == RoundBits(TimesBits(n, p.m), p.e, MantissaBits)
  IN  Canonical(r.m, r.e)

\* long division by a small positive natural n, from bit i of the dividend
\* down; rem and q are the remainder and the quotient bits of the bits above i
RECURSIVE DivFrom(_, _, _, _, _)
DivFrom(bits, n, i, rem, q) ==
  IF i = 0 THEN [q |-> q, r |-> rem]
  ELSE IF 2 * rem + bits[i] >= n
       THEN DivFrom(bits, n, i - 1, 2 * rem + bits[i] - n, <<1>> \o q)
       ELSE DivFrom(bits, n, i - 1, 2 * rem + bits[i], <<0>> \o q)

\* bits \div n and bits % n
DivBits(bits, n) == DivFrom(bits, n, Len(bits), 0, <<>>)

\* ToNumber: undefined becomes NaN
ToNumber(x) == IF IsNum(x) THEN x ELSE NaN

\* x || d : undefined, NaN and 0 are falsy
OrDefault(x, d) == IF x.k = "dbl" \/ (x.k = "num" /\ x.n # 0) THEN x ELSE d

\* Math.max(a, b): NaN when either argument is NaN after ToNumber
MathMax(a, b) ==
  LET x == ToNumber(a)
      y == ToNumber(b)
  IN  IF x.k = "nan" \/ y.k = "nan" THEN NaN
      ELSE IF NumGe(x, y) THEN x ELSE y

\* Math.min(a, b)
MathMin(a, b) ==
  LET x == ToNumber(a)
      y == ToNumber(b)
  IN  IF x.k = "nan" \/ y.k = "nan" THEN NaN
      ELSE IF NumGe(y, x) THEN x ELSE y

\* a >= b and a < b of JavaScript: false when either side is NaN
JsGe(a, b) ==
  LET x == ToNumber(a)
      y == ToNumber(b)
  IN  IsNum(x) /\ IsNum(y) /\ NumGe(x, y)

JsLt(a, b) ==
  LET x == ToNumber(a)
      y == ToNumber(b)
  IN  IsNum(x) /\ IsNum(y) /\ ~NumGe(x, y)

\* s || d for strings: the empty (or absent) string is falsy
StrOrDefault(s, d) == IF s = "" THEN d ELSE s

\* list.length > 0 ? list : undefined: a list of zero or one list
OrUndefined(list) == IF Len(list) > 0 THEN <<list>> ELSE <<>>

\* Array.prototype.slice(0, n)
Slice0(s, n) == IF Len(s) <= n THEN s ELSE SubSeq(s, 1, n)

\* sequences over S of length 0..hi
SeqsUpTo(S, hi) == UNION {[1..n -> S] : n \in 0..hi}

\* --------------------------------------------------------- recognizeFood
\* confidence: Math.max(0, Math.min(1, item.confidence || 0))
ClampConfidence(c) == MathMax(Num(0), MathMin(Num(ONE), OrDefault(c, Num(0))))

SanitizeItem(item) ==
  [name |-> StrOrDefault(item.name, "Unknown food"),
   confidence |-> ClampConfidence(item.confidence),
   category |-> StrOrDefault(item.category, "unknown")]

\* confidence: Math.max(0, Math.min(1, est.calories.confidence))
ClampCalorieConfidence(c) == MathMax(Num(0), MathMin(Num(ONE), c))

\* relevance: Math.max(0, Math.min(1, p.relevance || 0.5))
ClampRelevance(r) ==
  MathMax(Num(0), MathMin(Num(ONE), OrDefault(r, Num(DefaultRelevance))))

\* ------------------------------------------- recognizeFoodWithValidation
\* the two filters and the warnings of recognizeFoodWithValidation, applied to
\* the list recognizeFood returned
LowConfidenceWarning(n) == [msg |-> "low confidence", n |-> n]
AllLowWarning == [msg |-> "all low confidence", n |-> 0]
NoItemsWarning == [msg |-> "no food items", n |-> 0]

IsConfident_Strict(item, minConfidence) ==
  JsGe(item.confidence, minConfidence) /\ item.confidence # minConfidence
IsConfident(item, minConfidence) == JsGe(item.confidence, minConfidence)

IsLowConfidence_AtOrBelow(item, minConfidence) ==
  JsLt(item.confidence, minConfidence) \/ item.confidence = minConfidence
IsLowConfidence(item, minConfidence) == JsLt(item.confidence, minConfidence)

FilterWarnings_SilentWhenEmpty(allItems, recognized, low) ==
  (IF Len(low) > 0 THEN <<LowConfidenceWarning(Len(low))>> ELSE <<>>)
  \o (IF Len(recognized) = 0 /\ Len(allItems) > 0 THEN <<AllLowWarning>> ELSE <<>>)
FilterWarnings_AllLowWhenEmpty(allItems, recognized, low) ==
  (IF Len(low) > 0 THEN <<LowConfidenceWarning(Len(low))>> ELSE <<>>)
  \o (IF Len(recognized) = 0 THEN <<AllLowWarning>> ELSE <<>>)
  \o (IF Len(allItems) = 0 THEN <<NoItemsWarning>> ELSE <<>>)
FilterWarnings(allItems, recognized, low) ==
  (IF Len(low) > 0 THEN <<LowConfidenceWarning(Len(low))>> ELSE <<>>)
  \o (IF Len(recognized) = 0 /\ Len(allItems) > 0 THEN <<AllLowWarning>> ELSE <<>>)
  \o (IF Len(allItems) = 0 THEN <<NoItemsWarning>> ELSE <<>>)

\* allItems.filter(item => item.confidence >= minConfidence): one pass from
\* the first element to the last
RECURSIVE FilterConfident(_, _)
FilterConfident(items, minConfidence) ==
  IF items = <<>> THEN <<>>
  ELSE (IF IsConfident(Head(items), minConfidence) THEN <<Head(items)>> ELSE <<>>)
         \o FilterConfident(Tail(items), minConfidence)

\* allItems.filter(item => item.confidence < minConfidence)
RECURSIVE FilterLowConfidence(_, _)
FilterLowConfidence(items, minConfidence) ==
  IF items = <<>> THEN <<>>
  ELSE (IF IsLowConfidence(Head(items), minConfidence) THEN <<Head(items)>> ELSE <<>>)
         \o FilterLowConfidence(Tail(items), minConfidence)

ConfidenceFilter(allItems, minConfidence) ==
  LET recognized == FilterConfident(allItems, minConfidence)
      low == FilterLowConfidence(allItems, minConfidence)
  IN  [recognizedItems |-> recognized,
       lowConfidenceItems |-> low,
       warnings |-> FilterWarnings(allItems, recognized, low)]

\* ------------------------------------------------------- estimateNutrition
\* min: Math.max(0, est.x.min), max: Math.max(est.x.min, est.x.max): the max
\* is floored at the RAW min
SanitizeCalories(r) ==
  [min |-> MathMax(Num(0), r.min),
   max |-> MathMax(r.min, r.max),
   confidence |-> ClampCalorieConfidence(r.confidence)]

SanitizeMacro(r) ==
  [min |-> MathMax(Num(0), r.min),
   max |-> MathMax(r.min, r.max),
   unit |-> StrOrDefault(r.unit, "g")]

\* ...est keeps foodItem and fiber as the reply gave them; fiber is a list of
\* zero or one range (the field is optional)
SanitizeEstimate(est) ==
  [foodItem |-> est.foodItem,
   calories |-> SanitizeCalories(est.calories),
   protein |-> SanitizeMacro(est.protein),
   carbs |-> SanitizeMacro(est.carbs),
   fat |-> SanitizeMacro(est.fat),
   fiber |-> est.fiber]

\* ------------------------------------------------ generateReflectionPrompts
SanitizePrompt(p) ==
  [question |-> p.question,
   category |-> StrOrDefault(p.category, "awareness"),
   relevance |-> ClampRelevance(p.relevance)]

SanitizePrompts(prompts) ==
  LET kept == Slice0(prompts, PromptCap)
  IN  [i \in 1..Len(kept) |-> SanitizePrompt(kept[i])]

\* ------------------------------------------------------ generateHabitNudges
SanitizeNudge(n) ==
  [message |-> n.message,
   type |-> StrOrDefault(n.type, "neutral"),
   actionable |-> n.actionable]

SanitizeNudges(nudges) ==
  LET kept == Slice0(nudges, NudgeCap)
  IN  [i \in 1..Len(kept) |-> SanitizeNudge(kept[i])]

\* ------------------------------------------- generatePositiveReinforcement
\* new Set(foodItems.map(f => f.category)).size
UniqueCategories(foodItems) == {foodItems[i].category : i \in 1..Len(foodItems)}

\* Math.min(1.0, categoryCount * 0.2): the double itself (1.0 is Num(1) here,
\* the score is compared with 0.8 and goes nowhere else)
calculateVarietyScore(foodItems) ==
  MathMin(Num(1), JsTimes(Cardinality(UniqueCategories(foodItems)), Fifth))

VarietyNudge == [message |-> "variety", type |-> "positive", actionable |-> FALSE]
VegFruitNudge == [message |-> "veg and fruit", type |-> "positive", actionable |-> FALSE]

\* the nudge as a list of zero or one element (null is the empty list)
generatePositiveReinforcement_AboveOnly(foodItems) ==
  IF ~JsGe(FourFifths, calculateVarietyScore(foodItems)) THEN <<VarietyNudge>>
  ELSE IF "vegetable" \in UniqueCategories(foodItems)
          /\ "fruit" \in UniqueCategories(foodItems)
       THEN <<VegFruitNudge>>
       ELSE <<>>
generatePositiveReinforcement(foodItems) ==
  IF JsGe(calculateVarietyScore(foodItems), FourFifths) THEN <<VarietyNudge>>
  ELSE IF "vegetable" \in UniqueCategories(foodItems)
          /\ "fruit" \in UniqueCategories(foodItems)
       THEN <<VegFruitNudge>>
       ELSE <<>>

\* ------------------------------------------------- calculateTotalNutrition
\* a + b of JavaScript numbers: the exact sum, rounded to the nearest double.
\* Small integers add exactly; a fractional number is positive and is added to
\* numbers that are not negative.
JsAdd(a, b) ==
  LET x == ToNumber(a)
      y == ToNumber(b)
  IN  IF x.k = "nan" \/ y.k = "nan" THEN NaN
      ELSE IF x.k = "num" /\ y.k = "num" THEN Num(x.n + y.n)
      ELSE LET al == Aligned(x, y)
               r == RoundBits(AddBits(al.a, al.b, 0), al.e, MantissaBits)
           IN  Canonical(r.m, r.e)

\* the accumulator of reduce((sum, x) => sum + x, 0) after the first n elements
RECURSIVE SumTo(_, _)
SumTo(s, n) == IF n = 0 THEN Num(0) ELSE JsAdd(SumTo(s, n - 1), s[n])

\* x / n of JavaScript numbers, x not negative and n a natural below 64: the
\* exact quotient, rounded to the nearest double (the dividend is widened to
\* 61 bits, which leaves at least 55 quotient bits, and a sticky bit holds
\* whether a remainder is left); 0 / 0 is NaN
JsDivide(x, n) ==
  IF ~IsNum(x) \/ n = 0 THEN NaN
  ELSE LET p == Parts(x)
           widened == 61 - Len(p.m)
           d == DivBits(ShiftLeft(p.m, widened), n)
           r == RoundBits(<<IF d.r = 0 THEN 0 ELSE 1>> \o d.q, p.e - widened - 1,
                          MantissaBits)
       IN  Canonical(r.m, r.e)

\* reduce((sum, x) => sum + x, 0) over a list of numbers, left to right
SumSeq(s) == SumTo(s, Len(s))

\* a quotient is kept as numerator and denominator
Quotient(num, den) == [num |-> num, den |-> den]

calculateTotalNutrition_MaxFromMin(estimates) ==
  LET n == Len(estimates)
      calMin == SumSeq([i \in 1..n |-> estimates[i].calories.min])
      calMax == SumSeq([i \in 1..n |-> estimates[i].calories.min])
      proMin == SumSeq([i \in 1..n |-> estimates[i].protein.min])
      proMax == SumSeq([i \in 1..n |-> estimates[i].protein.max])
      carbMin == SumSeq([i \in 1..n |-> estimates[i].carbs.min])
      carbMax == SumSeq([i \in 1..n |-> estimates[i].carbs.max])
      fatMin == SumSeq([i \in 1..n |-> estimates[i].fat.min])
      fatMax == SumSeq([i \in 1..n |-> estimates[i].fat.max])
      confidenceSum == SumSeq([i \in 1..n |-> estimates[i].calories.confidence])
  IN  [totalCalories |-> [min |-> calMin, max |-> calMax],
       totalProtein |-> [min |-> proMin, max |-> proMax],
       totalCarbs |-> [min |-> carbMin, max |-> carbMax],
       totalFat |-> [min |-> fatMin, max |-> fatMax],
       averageConfidence |->
         IF n > 0 THEN Quotient(confidenceSum, n) ELSE Quotient(Num(0), 1)]
calculateTotalNutrition(estimates) ==
  LET n == Len(estimates)
      calMin == SumSeq([i \in 1..n |-> estimates[i].calories.min])
      calMax == SumSeq([i \in 1..n |-> estimates[i].calories.max])
      proMin == SumSeq([i \in 1..n |-> estimates[i].protein.min])
      proMax == SumSeq([i \in 1..n |-> estimates[i].protein.max])
      carbMin == SumSeq([i \in 1..n |-> estimates[i].carbs.min])
      carbMax == SumSeq([i \in 1..n |-> estimates[i].carbs.max])
      fatMin == SumSeq([i \in 1..n |-> estimates[i].fat.min])
      fatMax == SumSeq([i \in 1..n |-> estimates[i].fat.max])
      confidenceSum == SumSeq([i \in 1..n |-> estimates[i].calories.confidence])
  IN  [totalCalories |-> [min |-> calMin, max |-> calMax],
       totalProtein |-> [min |-> proMin, max |-> proMax],
       totalCarbs |-> [min |-> carbMin, max |-> carbMax],
       totalFat |-> [min |-> fatMin, max |-> fatMax],
       averageConfidence |->
         IF n > 0 THEN Quotient(confidenceSum, n) ELSE Quotient(Num(0), 1)]

\* ------------------------------------------------------------- evaluators
\* What a judge call can do: throw, or answer with absent content, with text
\* that does not start with a number, or with a number (in thirtieths).
JudgeThrows == [kind |-> "throw", n |-> 0]
JudgeAbsent == [kind |-> "absent", n |-> 0]
JudgeText == [kind |-> "text", n |-> 0]
JudgeNumber(n) == [kind |-> "number", n |-> n]

\* parseFloat(content?.trim() || '0')
ParseScore(reply) ==
  IF reply.kind = "absent" THEN Num(0)
  ELSE IF reply.kind = "text" THEN NaN
  ELSE Num(reply.n)

\* the body of evaluateHallucination, evaluateClarity and evaluateToneSafety:
\* catch -> 0.5; isNaN(score) ? 0.5 : Math.max(0, Math.min(1, score))
JudgeScore_Unclamped(reply) ==
  IF reply.kind = "throw" THEN NeutralScore
  ELSE LET score == ParseScore(reply)
       IN  IF score.k = "nan" THEN NeutralScore ELSE score.n

JudgeScore_ZeroOnThrow(reply) ==
  IF reply.kind = "throw" THEN 0
  ELSE LET score == ParseScore(reply)
       IN  IF score.k = "nan" THEN NeutralScore
           ELSE MathMax(Num(0), MathMin(Num(ONE), score)).n

JudgeScore(reply) ==
  IF reply.kind = "throw" THEN NeutralScore
  ELSE LET score == ParseScore(reply)
       IN  IF score.k = "nan" THEN NeutralScore
           ELSE MathMax(Num(0), MathMin(Num(ONE), score)).n

evaluateHallucination(reply) == JudgeScore(reply)
evaluateClarity(reply) == JudgeScore(reply)
evaluateToneSafety(reply) == JudgeScore(reply)

\* (hallucination + clarity + toneSafety) / 3; exact on multiples of 0.1
OverallQuality(hallucination, clarity, toneSafety) ==
  (hallucination + clarity + toneSafety) \div 3

\* the record evaluateAnalysis returns once its three judges have settled
evaluateAnalysis(hallucination, clarity, toneSafety) ==
  [hallucinationScore |-> hallucination,
   clarityScore |-> clarity,
   toneScore |-> toneSafety,
   confidenceCalibration |-> NeutralScore,
   overallQuality |-> OverallQuality(hallucination, clarity, toneSafety)]

\* ------------------------------------------------------- inference replies
\* What a generative call can do: reject (kind "error"), or resolve with
\* content that is absent (null), the empty string, blank, no JSON
\* ("garbage"), JSON but no array ("object"), or an array of records.  The
\* content may come in a fenced block: opened by ```json ("json"), by ```
\* ("plain"), by ``` and another word ("other"), or in a block that follows
\* some prose ("preceded").
ReplyError == [kind |-> "error", fence |-> "none", payload |-> <<>>]
ReplyAbsent == [kind |-> "absent", fence |-> "none", payload |-> <<>>]
ReplyEmpty == [kind |-> "empty", fence |-> "none", payload |-> <<>>]
ReplyBlank == [kind |-> "blank", fence |-> "none", payload |-> <<>>]
ReplyGarbage == [kind |-> "garbage", fence |-> "none", payload |-> <<>>]
ReplyObject == [kind |-> "object", fence |-> "none", payload |-> <<>>]
ReplyArray(payload) == [kind |-> "array", fence |-> "none", payload |-> payload]

Fences == {"json", "plain", "other", "preceded"}
Fenced(reply, fence) == [reply EXCEPT !.fence = fence]

FailingReplies == {ReplyError, ReplyGarbage, ReplyObject, ReplyBlank}

\* response.choices[0].message.content || '[]': absent and empty content
\* become the text of the empty array
ContentOrEmptyArray(reply) ==
  IF reply.kind \in {"absent", "empty"} THEN ReplyArray(<<>>) ELSE reply

\* trim, then: a text starting with ```json loses every ```json and ```; a
\* text starting with ``` loses every ``` (the word after it stays); any
\* other text is left as it is
StripFence(content) ==
  IF content.fence \in {"json", "plain"} THEN Fenced(content, "none")
  ELSE IF content.fence \in {"other", "preceded"} THEN ReplyGarbage
  ELSE content

\* content || '[]', the stripping, JSON.parse, and the .map / .slice that
\* needs an array: the list parsed, or threw
ParseReply(reply) ==
  LET text == StripFence(ContentOrEmptyArray(reply))
  IN  IF reply.kind # "error" /\ text.kind = "array"
      THEN [threw |-> FALSE, value |-> text.payload]
      ELSE [threw |-> TRUE, value |-> <<>>]

\* traceAgent, lines 32-52 (estimateNutrition holds the same steps inline,
\* lines 150-163): the result of the inference work once the trace has been
\* updated, ended and flushed (traced), or one of these calls threw.  When the
\* work itself threw the stage throws whatever the tracing calls of the catch do.
traceAgent(work, traced) ==
  IF work.threw \/ traced THEN work ELSE [threw |-> TRUE, value |-> <<>>]

\* the stage functions, from the reply of their inference call and the outcome
\* of their tracing calls to the list they return (or threw)
recognizeFood(reply, traced) ==
  LET parsed == ParseReply(reply)
  IN  traceAgent([threw |-> parsed.threw,
                  value |-> [i \in 1..Len(parsed.value) |-> SanitizeItem(parsed.value[i])]],
                 traced)

recognizeFoodWithValidation(reply, traced, minConfidence) ==
  LET all == recognizeFood(reply, traced)
  IN  [threw |-> all.threw, value |-> ConfidenceFilter(all.value, minConfidence)]

estimateNutrition(reply, traced) ==
  LET parsed == ParseReply(reply)
  IN  traceAgent([threw |-> parsed.threw,
                  value |-> [i \in 1..Len(parsed.value) |-> SanitizeEstimate(parsed.value[i])]],
                 traced)

generateReflectionPrompts(reply, traced) ==
  LET parsed == ParseReply(reply)
  IN  traceAgent([threw |-> parsed.threw, value |-> SanitizePrompts(parsed.value)], traced)

generateHabitNudges(reply, traced) ==
  LET parsed == ParseReply(reply)
  IN  traceAgent([threw |-> parsed.threw, value |-> SanitizeNudges(parsed.value)], traced)

\* --------------------------------------------------- what the replies hold
ItemNames == <<"a", "b", "c", "d", "e">>
ItemCategories == <<"vegetable", "fruit", "protein", "dairy", "grain">>
NameAt(i) == ItemNames[((i - 1) % 5) + 1]
CategoryAt(i) == ItemCategories[((i - 1) % 5) + 1]

\* raw confidences of the pipeline's recognition replies: below and above 0.3
PipeRawConfidences == {Num(6), Num(45)}

\* the item lists of the pipeline's recognition replies: the i-th item is
\* named and categorised by its position
ItemsOf(confidences) ==
  [i \in 1..Len(confidences) |->
     [name |-> NameAt(i), confidence |-> confidences[i], category |-> CategoryAt(i)]]

PipeRawItemLists ==
  {ItemsOf(f) : f \in SeqsUpTo(PipeRawConfidences, MaxPipeItems)}

RawRange(lo, hi, unit) == [min |-> Num(lo), max |-> Num(hi), unit |-> unit]
RawCalories(lo, hi, c) == [min |-> Num(lo), max |-> Num(hi), confidence |-> c]

\* the estimates of the pipeline's estimation replies
PipeRawEstimates ==
  {[foodItem |-> "a", calories |-> RawCalories(100, 120, Num(24)),
    protein |-> RawRange(1, 2, "g"), carbs |-> RawRange(0, 0, "g"),
    fat |-> RawRange(3, 5, "g"), fiber |-> <<>>],
   [foodItem |-> "b", calories |-> RawCalories(50, 10, Num(45)),
    protein |-> RawRange(2, 4, ""), carbs |-> RawRange(1, 1, "g"),
    fat |-> RawRange(0, 1, "g"), fiber |-> <<RawRange(1, 2, "g")>>]}

PromptCategories == <<"awareness", "goals", "", "habits", "alternatives", "goals">>
RawPromptAt(i) ==
  [question |-> i,
   category |-> PromptCategories[((i - 1) % 6) + 1],
   relevance |-> IF i % 3 = 0 THEN Undef ELSE Num(9 * i)]

NudgeTypes == <<"positive", "", "suggestion", "neutral">>
RawNudgeAt(i) ==
  [message |-> i, type |-> NudgeTypes[((i - 1) % 4) + 1], actionable |-> (i % 2 = 0)]

\* the replies of the pipeline's calls: the failures, absent and empty
\* content, arrays, and one array in a ```json block (every framing of every
\* kind of content is applied to the stage functions under PureSpec)
RecognitionReplies ==
  FailingReplies \cup {ReplyAbsent, ReplyEmpty}
    \cup {ReplyArray(l) : l \in PipeRawItemLists}
    \cup {Fenced(ReplyArray(ItemsOf(<<Num(45)>>)), "json")}
EstimationReplies ==
  FailingReplies \cup {ReplyAbsent, ReplyEmpty}
    \cup {ReplyArray(l) : l \in SeqsUpTo(PipeRawEstimates, MaxEstimates)}
    \cup {Fenced(ReplyArray(<<>>), "json")}
ReflectionReplies ==
  FailingReplies \cup {ReplyAbsent, ReplyEmpty}
    \cup {ReplyArray([i \in 1..n |-> RawPromptAt(i)]) : n \in 0..MaxPrompts}
    \cup {Fenced(ReplyArray(<<RawPromptAt(1)>>), "json")}
NudgeReplies ==
  FailingReplies \cup {ReplyAbsent, ReplyEmpty}
    \cup {ReplyArray([i \in 1..n |-> RawNudgeAt(i)]) : n \in 0..MaxNudges}
    \cup {Fenced(ReplyArray(<<RawNudgeAt(1)>>), "json")}
\* the judges' replies in the pipeline
JudgeReplies == {JudgeThrows, JudgeNumber(12), JudgeNumber(45)}

\* ================================================================== state
VARIABLES
  request,            \* the body of the analysis request
  pc,                 \* where POST stands
  callState,          \* each generative call: idle, inflight, ok, failed
  calls,              \* how often each inference call was issued
  tracing,            \* each stage's trace: none, open, ended, openFailed, endFailed
  recognizedItems, lowConfidenceItems, warnings,
  nutritionEstimates, reflectionPrompts, habitNudges,
  analysisResult,     \* zero or one AnalysisResult
  response,           \* what POST returned (status 0: nothing yet)
  judge,              \* each judge call and the score its evaluator returned
  evalPc,             \* where evaluateAndLog stands
  metrics,            \* zero or one EvaluationMetrics
  pureOp, pureIn, pureOut,  \* a function under check, its input, its result
  fbPc,               \* where POST /api/feedback stands
  fbBody,             \* the body of the feedback request
  fbResponse,         \* what POST /api/feedback returned (status 0: nothing yet)
  fbLog,              \* what logFeedback did: invocations, traces created, errors caught
  retryPc,            \* where a call of retry stands
  maxAttempts, delayMs,     \* its arguments
  attempt, lastError, \* its locals
  retryLog,           \* what it did so far: calls of fn, their outcomes, sleeps
  retryOutcome,       \* what it returned or threw (kind "none": nothing yet)
  uri,                \* MONGODB_URI || ''
  cachedClient, cachedDb,   \* the module's cache (0: null)
  dbCall,             \* each call of connectToDatabase: where it stands, its client
  created,            \* how many MongoClients were created
  closePc, closes     \* where closeDatabaseConnection stands; how often it was called

pipeVars ==
  <<request, pc, callState, calls, tracing, recognizedItems, lowConfidenceItems, warnings,
    nutritionEstimates, reflectionPrompts, habitNudges, analysisResult,
    response, judge, evalPc, metrics>>
pureVars == <<pureOp, pureIn, pureOut>>
feedbackVars == <<fbPc, fbBody, fbResponse, fbLog>>
retryVars == <<retryPc, maxAttempts, delayMs, attempt, lastError, retryLog, retryOutcome>>
dbVars == <<uri, cachedClient, cachedDb, dbCall, created, closePc, closes>>
utilVars == <<retryVars, dbVars>>
vars == <<pipeVars, pureVars, feedbackVars, utilVars>>

Stages == {"recognition", "estimation", "reflection", "nudge"}
Judges == {"hallucination", "clarity", "toneSafety"}

\* the awaits of POST: request.json(), the four stages.  Line 83 holds none:
\* evaluateAndLog(...) is called and its promise is left alone.
AwaitPoints_AwaitEvaluation ==
  {"received", "recognizing", "estimating", "reflecting", "nudging",
   "evaluationStarted"}
AwaitPoints == {"received", "recognizing", "estimating", "reflecting", "nudging"}

\* callbacks of settled calls run only while no handler code is on the stack
HandlerSuspended == pc \in AwaitPoints \cup {"done"}

NoResponse ==
  [status |-> 0, error |-> "", details |-> "", warnings |-> <<>>,
   analysis |-> <<>>, totals |-> <<>>, lowConfidenceItems |-> <<>>]

\* the catch of POST: status 500, generic error, details of the error caught
ServerFailure_NoDetails(details) ==
  [NoResponse EXCEPT !.status = 500, !.error = "Failed to analyze image"]
ServerFailure(details) ==
  [NoResponse EXCEPT !.status = 500, !.error = "Failed to analyze image",
                     !.details = details]

\* the early exit of POST, line 31
ShouldReject_Never(recognized) == FALSE
ShouldReject(recognized) == Len(recognized) = 0

\* the calls POST issues once estimation has returned, and once reflection has
IssuedAfterEstimation_Both == {"reflection", "nudge"}
IssuedAfterEstimation == {"reflection"}
IssuedAfterReflection == {"nudge"}

\* a stage is called: opikClient.trace opens its trace and its inference call
\* is issued
Issue(stages) ==
  /\ callState' = [c \in Stages |-> IF c \in stages THEN "inflight" ELSE callState[c]]
  /\ calls' = [c \in DOMAIN calls |-> IF c \in stages THEN calls[c] + 1 ELSE calls[c]]

Settle(stage, how) == callState' = [callState EXCEPT ![stage] = how]

\* the trace of a stage that settled (ended: "ended" or "endFailed"; "" when
\* no stage settled) and the traces of the stages called next
Traces(settled, ended, called, opened) ==
  tracing' = [c \in Stages |->
                IF c = settled THEN ended
                ELSE IF c \in called THEN opened
                ELSE tracing[c]]

\* what became of the trace of a stage whose work and tracing are settled
TraceEnd(workThrew, traced) == IF workThrew \/ traced THEN "ended" ELSE "endFailed"

\* a stage threw: the catch of POST answers 500 and the handler is over
StageFails(stage, details) ==
  /\ Settle(stage, "failed")
  /\ response' = ServerFailure(details)
  /\ pc' = "done"

\* opikClient.trace threw when the stages `called` were called, after stage
\* `settled` had returned: the call rejects before any inference call is
\* issued, and the catch of POST answers 500
TraceOpenFails(settled, called) ==
  /\ callState' = [c \in Stages |->
                     IF c = settled THEN "ok"
                     ELSE IF c \in called THEN "failed"
                     ELSE callState[c]]
  /\ Traces(settled, "ended", called, "openFailed")
  /\ response' = ServerFailure("tracing")
  /\ pc' = "done"
  /\ UNCHANGED calls

\* the details of the error a stage threw
Details(workThrew, message) == IF workThrew THEN message ELSE "tracing"

\* what the body of an analysis request can be: no JSON; the JSON null; an
\* object whose image is absent, null, the empty string, a value that is no
\* string, or a non-empty string (whatever it holds: POST never decodes it)
RequestBodies ==
  {"unparseable", "null", "noImage", "nullImage", "emptyImage", "nonStringImage", "image"}

\* !image, line 17
ImageMissing_Never(body) == FALSE
ImageMissing(body) == body \in {"noImage", "nullImage", "emptyImage"}

\* image.replace exists, line 25
ImageIsString(body) == body \in {"emptyImage", "image"}

PipeInit ==
  /\ pc = "received"
  /\ callState = [c \in Stages |-> "idle"]
  /\ calls = [c \in Stages \cup Judges |-> 0]
  /\ tracing = [c \in Stages |-> "none"]
  /\ recognizedItems = <<>>
  /\ lowConfidenceItems = <<>>
  /\ warnings = <<>>
  /\ nutritionEstimates = <<>>
  /\ reflectionPrompts = <<>>
  /\ habitNudges = <<>>
  /\ analysisResult = <<>>
  /\ response = NoResponse
  /\ judge = [j \in Judges |-> [state |-> "idle", reply |-> JudgeAbsent, score |-> 0]]
  /\ evalPc = "none"
  /\ metrics = <<>>

PureIdle ==
  /\ pureOp = "none"
  /\ pureIn = <<>>
  /\ pureOut = <<>>

NoFeedbackResponse == [status |-> 0, error |-> "", success |-> FALSE, feedbackId |-> FALSE]
NothingLogged == [invoked |-> 0, traces |-> 0, caught |-> 0]

FeedbackIdle ==
  /\ fbPc = "none"
  /\ fbBody = <<>>
  /\ fbResponse = NoFeedbackResponse
  /\ fbLog = NothingLogged

\* no call of retry is under way
NoOutcome == [kind |-> "none", value |-> ""]
RetryIdle ==
  /\ retryPc = "none"
  /\ maxAttempts = 0
  /\ delayMs = 0
  /\ attempt = 0
  /\ lastError = "undefined"
  /\ retryLog = <<>>
  /\ retryOutcome = NoOutcome

\* the callers of connectToDatabase; none has called, the cache is empty
Callers == 1..MaxCallers
NotCalled == [pc |-> "idle", client |-> 0, returned |-> 0]
DbIdle ==
  /\ uri = ""
  /\ cachedClient = 0
  /\ cachedDb = 0
  /\ dbCall = [p \in Callers |-> NotCalled]
  /\ created = 0
  /\ closePc = "idle"
  /\ closes = 0

UtilIdle == RetryIdle /\ DbIdle

Init ==
  /\ PipeInit
  /\ request \in RequestBodies
  /\ PureIdle
  /\ FeedbackIdle
  /\ UtilIdle

\* ---------------------------------------------------------------- POST
\* lines 13-29: the body is parsed and destructured (both may throw into the
\* catch), the image is checked, the data-URL prefix is taken off with
\* image.replace (which throws when the image is no string), recognition is
\* called
ReceiveRequest ==
  /\ pc = "received"
  /\ \E opens \in BOOLEAN :
       IF request \in {"unparseable", "null"}
       THEN /\ response' = ServerFailure("body")
            /\ pc' = "done"
            /\ UNCHANGED <<callState, calls, tracing>>
       ELSE IF ImageMissing(request)
       THEN /\ response' = [NoResponse EXCEPT !.status = 400, !.error = "Image is required"]
            /\ pc' = "done"
            /\ UNCHANGED <<callState, calls, tracing>>
       ELSE IF ~ImageIsString(request)
       THEN /\ response' = ServerFailure("image")
            /\ pc' = "done"
            /\ UNCHANGED <<callState, calls, tracing>>
       ELSE IF opens
       THEN /\ Issue({"recognition"})
            /\ Traces("", "", {"recognition"}, "open")
            /\ pc' = "recognizing"
            /\ UNCHANGED response
       ELSE TraceOpenFails("", {"recognition"})
  /\ UNCHANGED <<recognizedItems, lowConfidenceItems, warnings, nutritionEstimates,
                 reflectionPrompts, habitNudges, analysisResult, judge, evalPc,
                 metrics, pureVars,
                 feedbackVars, utilVars, request>>

\* lines 28-42: recognition settles; the filter; the early exit or estimation
RecognitionReturns ==
  /\ pc = "recognizing"
  /\ callState["recognition"] = "inflight"
  /\ \E reply \in RecognitionReplies, traced \in BOOLEAN, opens \in BOOLEAN :
       LET r == recognizeFoodWithValidation(reply, traced, Num(MinConfidence))
           workThrew == ParseReply(reply).threw
       IN  IF r.threw
           THEN /\ StageFails("recognition", Details(workThrew, "Failed to recognize food"))
                /\ Traces("recognition", TraceEnd(workThrew, traced), {}, "")
                /\ UNCHANGED <<calls, recognizedItems, lowConfidenceItems, warnings>>
           ELSE /\ recognizedItems' = r.value.recognizedItems
                /\ lowConfidenceItems' = r.value.lowConfidenceItems
                /\ warnings' = r.value.warnings
                /\ IF ShouldReject(r.value.recognizedItems)
                   THEN /\ Settle("recognition", "ok")
                        /\ Traces("recognition", "ended", {}, "")
                        /\ response' =
                             [NoResponse EXCEPT
                                !.status = 422,
                                !.error = "No food items could be recognized",
                                !.warnings = r.value.warnings]
                        /\ pc' = "done"
                        /\ UNCHANGED calls
                   ELSE IF opens
                   THEN /\ callState' = [callState EXCEPT !["recognition"] = "ok",
                                                          !["estimation"] = "inflight"]
                        /\ calls' = [calls EXCEPT !["estimation"] = @ + 1]
                        /\ Traces("recognition", "ended", {"estimation"}, "open")
                        /\ pc' = "estimating"
                        /\ UNCHANGED response
                   ELSE TraceOpenFails("recognition", {"estimation"})
  /\ UNCHANGED <<nutritionEstimates, reflectionPrompts, habitNudges, analysisResult,
                 judge, evalPc, metrics, pureVars,
                 feedbackVars, utilVars, request>>

\* lines 42-48: estimation settles; reflection is called
EstimationReturns ==
  /\ pc = "estimating"
  /\ callState["estimation"] = "inflight"
  /\ \E reply \in EstimationReplies, traced \in BOOLEAN, opens \in BOOLEAN :
       LET r == estimateNutrition(reply, traced)
           workThrew == ParseReply(reply).threw
       IN  IF r.threw
           THEN /\ StageFails("estimation", Details(workThrew, "Failed to estimate nutrition"))
                /\ Traces("estimation", TraceEnd(workThrew, traced), {}, "")
                /\ UNCHANGED <<calls, nutritionEstimates>>
           ELSE /\ nutritionEstimates' = r.value
                /\ IF opens
                   THEN /\ callState' =
                             [c \in Stages |->
                                IF c = "estimation" THEN "ok"
                                ELSE IF c \in IssuedAfterEstimation THEN "inflight"
                                ELSE callState[c]]
                        /\ calls' = [c \in DOMAIN calls |->
                                       IF c \in IssuedAfterEstimation THEN calls[c] + 1
                                       ELSE calls[c]]
                        /\ Traces("estimation", "ended", IssuedAfterEstimation, "open")
                        /\ pc' = "reflecting"
                        /\ UNCHANGED response
                   ELSE TraceOpenFails("estimation", IssuedAfterEstimation)
  /\ UNCHANGED <<recognizedItems, lowConfidenceItems, warnings, reflectionPrompts,
                 habitNudges, analysisResult, judge, evalPc, metrics, pureVars,
                 feedbackVars, utilVars, request>>

\* lines 45-54: reflection settles; nudge generation is called
ReflectionReturns ==
  /\ pc = "reflecting"
  /\ callState["reflection"] = "inflight"
  /\ \E reply \in ReflectionReplies, traced \in BOOLEAN, opens \in BOOLEAN :
       LET r == generateReflectionPrompts(reply, traced)
           workThrew == ParseReply(reply).threw
       IN  IF r.threw
           THEN /\ StageFails("reflection",
                              Details(workThrew, "Failed to generate reflection prompts"))
                /\ Traces("reflection", TraceEnd(workThrew, traced), {}, "")
                /\ UNCHANGED <<calls, reflectionPrompts>>
           ELSE /\ reflectionPrompts' = r.value
                /\ IF opens
                   THEN /\ callState' =
                             [c \in Stages |->
                                IF c = "reflection" THEN "ok"
                                ELSE IF c \in IssuedAfterReflection THEN "inflight"
                                ELSE callState[c]]
                        /\ calls' = [c \in DOMAIN calls |->
                                       IF c \in IssuedAfterReflection THEN calls[c] + 1
                                       ELSE calls[c]]
                        /\ Traces("reflection", "ended", IssuedAfterReflection, "open")
                        /\ pc' = "nudging"
                        /\ UNCHANGED response
                   ELSE TraceOpenFails("reflection", IssuedAfterReflection)
  /\ UNCHANGED <<recognizedItems, lowConfidenceItems, warnings, nutritionEstimates,
                 habitNudges, analysisResult, judge, evalPc, metrics, pureVars,
                 feedbackVars, utilVars, request>>

\* lines 57-60: habitNudges.unshift(positiveNudge) when there is one
AddPositiveReinforcement_Appended(recognized, nudges) ==
  nudges \o generatePositiveReinforcement(recognized)
AddPositiveReinforcement(recognized, nudges) ==
  generatePositiveReinforcement(recognized) \o nudges

\* recognizedItems.reduce((sum, item) => sum + item.confidence, 0) / length
OverallConfidence(items) ==
  Quotient(SumSeq([i \in 1..Len(items) |-> items[i].confidence]), Len(items))

\* the division of lines 64-65 as JavaScript does it
Divided(quotient) == JsDivide(quotient.num, quotient.den)

\* lines 28-39 and 63-65 on the list recognizeFood returned: the early exit, or
\* the recognised items and their overall confidence
AssessConfidence(allItems, minConfidence) ==
  LET recognized == ConfidenceFilter(allItems, minConfidence).recognizedItems
  IN  IF ShouldReject(recognized)
      THEN [rejected |-> TRUE, foodItems |-> <<>>, overallConfidence |-> NaN]
      ELSE [rejected |-> FALSE, foodItems |-> recognized,
            overallConfidence |-> Divided(OverallConfidence(recognized))]

\* lines 51-80: nudge generation settles; the reinforcement nudge is put in
\* front; the AnalysisResult is assembled
NudgeReturns ==
  /\ pc = "nudging"
  /\ callState["nudge"] = "inflight"
  /\ \E reply \in NudgeReplies, traced \in BOOLEAN :
       LET r == generateHabitNudges(reply, traced)
           workThrew == ParseReply(reply).threw
           nudges == AddPositiveReinforcement(recognizedItems, r.value)
       IN  IF r.threw
           THEN /\ StageFails("nudge", Details(workThrew, "Failed to generate habit nudges"))
                /\ Traces("nudge", TraceEnd(workThrew, traced), {}, "")
                /\ UNCHANGED <<habitNudges, analysisResult>>
           ELSE /\ habitNudges' = nudges
                /\ analysisResult' =
                     <<[foodItems |-> recognizedItems,
                        nutritionEstimates |-> nutritionEstimates,
                        reflectionPrompts |-> reflectionPrompts,
                        habitNudges |-> nudges,
                        overallConfidence |-> OverallConfidence(recognizedItems),
                        warnings |-> OrUndefined(warnings)]>>
                /\ Settle("nudge", "ok")
                /\ Traces("nudge", "ended", {}, "")
                /\ pc' = "assembled"
                /\ UNCHANGED response
  /\ UNCHANGED <<calls, recognizedItems, lowConfidenceItems, warnings,
                 nutritionEstimates, reflectionPrompts, judge, evalPc, metrics,
                 pureVars,
                 feedbackVars, utilVars, request>>

\* line 83: evaluateAndLog(analysisResult) runs up to its first await, which
\* is inside the three evaluators: the three judge calls are issued.
\* NudgeReturns, StartEvaluation and ReturnResponse are one synchronous run of
\* the handler (no callback runs in between: see HandlerSuspended); they are
\* separate steps so that the order of lines 80, 83 and 87 can be observed.
StartEvaluation ==
  /\ pc = "assembled"
  /\ judge' = [j \in Judges |-> [state |-> "inflight", reply |-> JudgeAbsent, score |-> 0]]
  /\ calls' = [c \in DOMAIN calls |-> IF c \in Judges THEN calls[c] + 1 ELSE calls[c]]
  /\ evalPc' = "judging"
  /\ pc' = "evaluationStarted"
  /\ UNCHANGED <<callState, tracing, recognizedItems, lowConfidenceItems, warnings,
                 nutritionEstimates, reflectionPrompts, habitNudges, analysisResult,
                 response, metrics, pureVars,
                 feedbackVars, utilVars, request>>

EvaluationSettled == evalPc \in {"logged", "caught", "rejected"}

\* lines 87-93: the success response
ReturnResponse ==
  /\ pc = "evaluationStarted"
  /\ pc \in AwaitPoints => EvaluationSettled
  /\ response' =
       [NoResponse EXCEPT
          !.status = 200,
          !.analysis = analysisResult,
          !.totals = <<calculateTotalNutrition(nutritionEstimates)>>,
          !.lowConfidenceItems = OrUndefined(lowConfidenceItems)]
  /\ pc' = "done"
  /\ UNCHANGED <<callState, calls, tracing, recognizedItems, lowConfidenceItems,
                 warnings, nutritionEstimates, reflectionPrompts, habitNudges,
                 analysisResult, judge, evalPc, metrics, pureVars,
                 feedbackVars, utilVars, request>>

\* ------------------------------------------------------- evaluateAndLog
\* the catch of evaluateAndLog, lines 138-140: the error is logged
OnEvaluationError_Rethrow == "rejected"
OnEvaluationError == "caught"

EvaluatorOf(j, reply) ==
  IF j = "hallucination" THEN evaluateHallucination(reply)
  ELSE IF j = "clarity" THEN evaluateClarity(reply)
  ELSE evaluateToneSafety(reply)

\* one judge call settles and its evaluator returns a score
JudgeReturns ==
  /\ HandlerSuspended
  /\ evalPc = "judging"
  /\ \E j \in Judges, reply \in JudgeReplies :
       /\ judge[j].state = "inflight"
       /\ judge' = [judge EXCEPT
                      ![j] = [state |-> IF reply.kind = "throw" THEN "threw" ELSE "replied",
                              reply |-> reply,
                              score |-> EvaluatorOf(j, reply)]]
  /\ UNCHANGED <<pc, callState, calls, tracing, recognizedItems, lowConfidenceItems, warnings,
                 nutritionEstimates, reflectionPrompts, habitNudges, analysisResult,
                 response, evalPc, metrics, pureVars,
                 feedbackVars, utilVars, request>>

\* Promise.all resolves: evaluateAnalysis returns the metrics, and batchTrace
\* creates and ends its trace (which may throw) and awaits the flush
EvaluationResumes ==
  /\ HandlerSuspended
  /\ evalPc = "judging"
  /\ \A j \in Judges : judge[j].state \in {"threw", "replied"}
  /\ metrics' = <<evaluateAnalysis(judge["hallucination"].score,
                                   judge["clarity"].score,
                                   judge["toneSafety"].score)>>
  /\ \E traceThrows \in BOOLEAN :
       evalPc' = IF traceThrows THEN OnEvaluationError ELSE "logging"
  /\ UNCHANGED <<pc, callState, calls, tracing, recognizedItems, lowConfidenceItems, warnings,
                 nutritionEstimates, reflectionPrompts, habitNudges, analysisResult,
                 response, judge, pureVars,
                 feedbackVars, utilVars, request>>

\* opikClient.flush() settles: the metrics are logged, or the catch runs
FlushReturns ==
  /\ HandlerSuspended
  /\ evalPc = "logging"
  /\ \E rejects \in BOOLEAN :
       evalPc' = IF rejects THEN OnEvaluationError ELSE "logged"
  /\ UNCHANGED <<pc, callState, calls, tracing, recognizedItems, lowConfidenceItems, warnings,
                 nutritionEstimates, reflectionPrompts, habitNudges, analysisResult,
                 response, judge, metrics, pureVars,
                 feedbackVars, utilVars, request>>

Next ==
  \/ ReceiveRequest
  \/ RecognitionReturns
  \/ EstimationReturns
  \/ ReflectionReturns
  \/ NudgeReturns
  \/ StartEvaluation
  \/ ReturnResponse
  \/ JudgeReturns
  \/ EvaluationResumes
  \/ FlushReturns

Spec == Init /\ [][Next]_vars

\* the handler's own code runs to completion once its awaited call has settled
LiveSpec == Spec /\ WF_vars(StartEvaluation) /\ WF_vars(ReturnResponse)

\* ===================================================== pure-function checks
\* One function of the pipeline is applied to one input drawn from a bounded
\* set; the pipeline itself stands still.
RawConfidences == {Undef, Num(-3), Num(0), Num(9), Num(30), Num(45)}

RawRanges ==
  {RawRange(-5, -3, ""), RawRange(-2, 2, "g"), RawRange(50, 10, "mg"), RawRange(1, 2, "g")}

RawCaloriesRanges ==
  {RawCalories(r.min.n, r.max.n, c) : r \in RawRanges, c \in RawConfidences}

RawEstimates ==
  {[foodItem |-> "a", calories |-> cal, protein |-> p, carbs |-> cb, fat |-> f,
    fiber |-> fib] :
     cal \in RawCaloriesRanges, p \in RawRanges, cb \in RawRanges, f \in RawRanges,
     fib \in {<<>>} \cup {<<r>> : r \in RawRanges}}

RawPrompts ==
  {[question |-> 1, category |-> c, relevance |-> r] :
     c \in {"", "goals", "mood"}, r \in RawConfidences}

\* confidences recognizeFood can return, and thresholds around them
SanitizedConfidences == {Num(0), Num(6), Num(9), Num(15), Num(30)}
Thresholds == {Num(9), Num(15), Num(30)}

\* every content that is no array, in every framing, and a rejected call
UnstructuredReplies ==
  {ReplyError, ReplyAbsent, ReplyEmpty}
    \cup {Fenced(r, f) : r \in {ReplyBlank, ReplyGarbage, ReplyObject},
                         f \in Fences \cup {"none"}}

\* an array in every framing
Framed(payload) == {Fenced(ReplyArray(payload), f) : f \in Fences \cup {"none"}}

RecognizeInputs ==
  {ReplyArray(ItemsOf(f)) : f \in SeqsUpTo(RawConfidences, MaxItems)}
    \cup UnstructuredReplies \cup Framed(ItemsOf(<<Num(24)>>))
EstimateInputs ==
  {ReplyArray(<<e>>) : e \in RawEstimates}
    \cup UnstructuredReplies \cup UNION {Framed(<<e>>) : e \in PipeRawEstimates}
ReflectInputs ==
  {ReplyArray(<<p>>) : p \in RawPrompts}
    \cup {ReplyArray([i \in 1..n |-> RawPromptAt(i)]) : n \in 0..MaxPrompts}
    \cup UnstructuredReplies \cup Framed(<<RawPromptAt(1)>>)
NudgeInputs ==
  {ReplyArray([i \in 1..n |-> RawNudgeAt(i)]) : n \in 0..MaxNudges}
    \cup UnstructuredReplies \cup Framed(<<RawNudgeAt(1)>>)
FilterInputs ==
  {[items |-> ItemsOf(f), minConfidence |-> t] :
     f \in SeqsUpTo(SanitizedConfidences, MaxItems), t \in Thresholds}

\* estimates as estimateNutrition returns them: the two of the aggregation
\* scenario (calories 100-120 and 200-250), with fractional grams, and two more
Range(lo, hi) == [min |-> lo, max |-> hi, unit |-> "g"]
Calories(lo, hi, c) == [min |-> Num(lo), max |-> Num(hi), confidence |-> Num(c)]

TotalledEstimates ==
  {[foodItem |-> "a", calories |-> Calories(100, 120, 24),
    protein |-> Range(Tenth, ThreeTenths), carbs |-> Range(Num(1), Num(2)),
    fat |-> Range(Tenth, Fifth), fiber |-> <<>>],
   [foodItem |-> "b", calories |-> Calories(200, 250, 30),
    protein |-> Range(Fifth, Fifth), carbs |-> Range(Num(0), Num(0)),
    fat |-> Range(Fifth, ThreeTenths), fiber |-> <<>>],
   [foodItem |-> "c", calories |-> Calories(0, 0, 9),
    protein |-> Range(ThreeTenths, ThreeTenths), carbs |-> Range(Num(3), Num(5)),
    fat |-> Range(ThreeTenths, Num(1)), fiber |-> <<>>],
   [foodItem |-> "d", calories |-> Calories(50, 60, 15),
    protein |-> Range(Num(2), Num(4)), carbs |-> Range(Num(1), Num(1)),
    fat |-> Range(Num(0), Num(1)), fiber |-> <<>>]}

TotalInputs == SeqsUpTo(TotalledEstimates, MaxTotalled)

\* what each of the three judges can do: throw, answer with no content, with
\* text that is no number, or with a number below 0, in [0,1] or above 1
ScoredReplies ==
  {JudgeThrows, JudgeAbsent, JudgeText, JudgeNumber(-3), JudgeNumber(0),
   JudgeNumber(12), JudgeNumber(ONE), JudgeNumber(45)}
JudgeInputs == [1..3 -> ScoredReplies]

\* the recognised items and the list generateHabitNudges returned, as lines
\* 57-60 of POST find them: items that earn no reinforcement nudge, the
\* vegetable-and-fruit nudge, the variety nudge; up to three nudges, among them
\* copies of the two reinforcement nudges
ReturnedNudges ==
  {VarietyNudge, VegFruitNudge,
   [message |-> "m1", type |-> "neutral", actionable |-> FALSE],
   [message |-> "m2", type |-> "suggestion", actionable |-> TRUE]}
ReinforcedItems ==
  {ItemsOf(<<Num(24)>>), ItemsOf(<<Num(24), Num(9)>>),
   ItemsOf(<<Num(24), Num(9), Num(30), Num(15)>>)}
ReinforceInputs ==
  {[items |-> items, nudges |-> nudges] :
     items \in ReinforcedItems, nudges \in SeqsUpTo(ReturnedNudges, NudgeCap)}

\* item lists as recognizeFood returns them, the confidences being the
\* doubles 0.1, 0.3, 0.5 and 1: every short list, and the lists of up to
\* MaxAveraged items of confidence 0.3 and of confidence 1
Half == Dbl(<<1>>, -1)
AveragedConfidences == {Tenth, ThreeTenths, Half, Num(1)}
AveragedItems ==
  {ItemsOf(f) : f \in SeqsUpTo(AveragedConfidences, MaxItems)}
    \cup {ItemsOf([i \in 1..n |-> c]) : n \in 1..MaxAveraged, c \in {ThreeTenths, Num(1)}}

\* recognised items of every mix of six categories
Categories == {"vegetable", "fruit", "protein", "dairy", "grain", "unknown"}
CategorisedItems ==
  {[i \in 1..Len(cs) |-> [name |-> NameAt(i), confidence |-> Num(24), category |-> cs[i]]] :
     cs \in SeqsUpTo(Categories, MaxCategorised)}

PureInit ==
  /\ PipeInit
  /\ request = "image"
  /\ FeedbackIdle
  /\ UtilIdle
  /\ pureOut = <<>>
  /\ \/ pureOp = "recognize" /\ pureIn \in RecognizeInputs
     \/ pureOp = "estimate" /\ pureIn \in EstimateInputs
     \/ pureOp = "reflect" /\ pureIn \in ReflectInputs
     \/ pureOp = "nudges" /\ pureIn \in NudgeInputs
     \/ pureOp = "filter" /\ pureIn \in FilterInputs
     \/ pureOp = "total" /\ pureIn \in TotalInputs
     \/ pureOp = "evaluate" /\ pureIn \in JudgeInputs
     \/ pureOp = "refilter" /\ pureIn \in FilterInputs
     \/ pureOp = "reinforce" /\ pureIn \in CategorisedItems
     \/ pureOp = "prepend" /\ pureIn \in ReinforceInputs
     \/ pureOp = "overall" /\ pureIn \in AveragedItems

Apply(op, result) ==
  /\ pureOp = op
  /\ pureOut = <<>>
  /\ pureOut' = <<result>>
  /\ UNCHANGED <<pureOp, pureIn, pipeVars, feedbackVars, utilVars>>

ApplyRecognize == Apply("recognize", recognizeFood(pureIn, TRUE))
ApplyEstimate == Apply("estimate", estimateNutrition(pureIn, TRUE))
ApplyReflect == Apply("reflect", generateReflectionPrompts(pureIn, TRUE))
ApplyNudges == Apply("nudges", generateHabitNudges(pureIn, TRUE))
ApplyFilter == Apply("filter", ConfidenceFilter(pureIn.items, pureIn.minConfidence))
ApplyTotal == Apply("total", calculateTotalNutrition(pureIn))
\* the filter, and the filter again on the recognizedItems it returned
ApplyRefilter ==
  Apply("refilter",
        LET first == ConfidenceFilter(pureIn.items, pureIn.minConfidence)
        IN  [first |-> first,
             second |-> ConfidenceFilter(first.recognizedItems, pureIn.minConfidence)])
ApplyReinforce == Apply("reinforce", generatePositiveReinforcement(pureIn))
ApplyPrepend == Apply("prepend", AddPositiveReinforcement(pureIn.items, pureIn.nudges))
ApplyOverall == Apply("overall", AssessConfidence(pureIn, ThreeTenths))
ApplyEvaluate ==
  Apply("evaluate",
        evaluateAnalysis(evaluateHallucination(pureIn[1]), evaluateClarity(pureIn[2]),
                         evaluateToneSafety(pureIn[3])))

PureNext ==
  \/ ApplyRecognize
  \/ ApplyEstimate
  \/ ApplyReflect
  \/ ApplyNudges
  \/ ApplyFilter
  \/ ApplyTotal
  \/ ApplyEvaluate
  \/ ApplyRefilter
  \/ ApplyReinforce
  \/ ApplyPrepend
  \/ ApplyOverall

PureSpec == PureInit /\ [][PureNext]_vars

\* ========================================================= POST /api/feedback
\* (src/src/app/api/feedback/route.ts, logFeedback of src/src/lib/opik/client.ts)
\* One feedback request; the analysis pipeline stands still.
\* the ids of the analyses that exist; the handler never looks at them
StoredAnalyses == {"analysis_1"}

\* what the analysisId of a body can be: absent, null, or a string
AnalysisIds ==
  {[k |-> "undef", s |-> ""], [k |-> "null", s |-> ""], [k |-> "str", s |-> ""],
   [k |-> "str", s |-> "analysis_1"], [k |-> "str", s |-> "analysis_2"]}

OptionalFields == {"correctedFoods", "correctedPortions", "satisfactionScore", "comments"}

\* a body that is no JSON, the JSON null, or an object
FeedbackBodies ==
  {[kind |-> k, analysisId |-> [k |-> "undef", s |-> ""], fields |-> {}] :
     k \in {"unparseable", "null"}}
    \cup {[kind |-> "object", analysisId |-> id, fields |-> f] :
            id \in AnalysisIds, f \in SUBSET OptionalFields}

\* !analysisId, line 18
FeedbackRejects_Never(body) == FALSE
FeedbackRejects(body) == ~(body.analysisId.k = "str" /\ body.analysisId.s # "")

\* the catch of logFeedback, lines 146-148: the error is logged, logFeedback
\* resolves
OnLogFeedbackError_Rethrow == "thrown"
OnLogFeedbackError == "logged"

\* the catch of POST, lines 52-61
FeedbackFailure ==
  [NoFeedbackResponse EXCEPT !.status = 500, !.error = "Failed to submit feedback"]

FeedbackInit ==
  /\ PipeInit
  /\ request = "image"
  /\ PureIdle
  /\ UtilIdle
  /\ fbPc = "received"
  /\ fbBody \in FeedbackBodies
  /\ fbResponse = NoFeedbackResponse
  /\ fbLog = NothingLogged

\* lines 9-42 and logFeedback up to its await: the body is parsed and
\* destructured (both throw into the catch), the id is checked, logFeedback is
\* called: it creates and ends the feedback trace (either may throw into its
\* catch) and awaits the flush
FeedbackReceive ==
  /\ fbPc = "received"
  /\ IF fbBody.kind # "object"
     THEN /\ fbResponse' = FeedbackFailure
          /\ fbPc' = "done"
          /\ UNCHANGED fbLog
     ELSE IF FeedbackRejects(fbBody)
     THEN /\ fbResponse' = [NoFeedbackResponse EXCEPT
                              !.status = 400, !.error = "Analysis ID is required"]
          /\ fbPc' = "done"
          /\ UNCHANGED fbLog
     ELSE /\ \E outcome \in {"traceThrows", "endThrows", "flushing"} :
               /\ fbLog' = [invoked |-> fbLog.invoked + 1,
                            traces |-> IF outcome = "traceThrows" THEN fbLog.traces
                                       ELSE fbLog.traces + 1,
                            caught |-> IF outcome = "flushing" THEN fbLog.caught
                                       ELSE fbLog.caught + 1]
               /\ fbPc' = IF outcome = "flushing" THEN "flushing" ELSE OnLogFeedbackError
          /\ UNCHANGED fbResponse
  /\ UNCHANGED <<fbBody, pipeVars, pureVars, utilVars>>

\* opikClient.flush() settles, line 145: logFeedback returns, or its catch runs
LogFeedbackFlushReturns ==
  /\ fbPc = "flushing"
  /\ \E rejects \in BOOLEAN :
       /\ fbPc' = IF rejects THEN OnLogFeedbackError ELSE "logged"
       /\ fbLog' = [fbLog EXCEPT !.caught = IF rejects THEN @ + 1 ELSE @]
  /\ UNCHANGED <<fbBody, fbResponse, pipeVars, pureVars, utilVars>>

\* lines 47-51, or the catch of POST when logFeedback rejected
FeedbackResponds ==
  /\ fbPc \in {"logged", "thrown"}
  /\ fbResponse' =
       IF fbPc = "logged"
       THEN [NoFeedbackResponse EXCEPT !.status = 200, !.success = TRUE, !.feedbackId = TRUE]
       ELSE FeedbackFailure
  /\ fbPc' = "done"
  /\ UNCHANGED <<fbBody, fbLog, pipeVars, pureVars, utilVars>>

FeedbackNext ==
  \/ FeedbackReceive
  \/ LogFeedbackFlushReturns
  \/ FeedbackResponds

FeedbackSpec == FeedbackInit /\ [][FeedbackNext]_vars

\* ==================================================================== retry
\* One call retry(fn, maxAttempts, delayMs) of reflectionAgent.ts, lines
\* 253-274.  fn resolves with a value or rejects with an error, as it likes, at
\* each call.
Delays == {0, 1000}
FnValues == {"v1"}
FnErrors == {"e1", "e2"}

Event(e, ms, what) == [e |-> e, ms |-> ms, what |-> what]

\* delayMs * Math.pow(2, attempt - 1), line 267
backoffDelay(ms, k) == ms * 2 ^ (k - 1)

\* attempt < maxAttempts, line 266
SleepsAfter_Always(k, n) == TRUE
SleepsAfter(k, n) == k < n

RetryInit ==
  /\ PipeInit
  /\ request = "image"
  /\ PureIdle
  /\ FeedbackIdle
  /\ DbIdle
  /\ retryPc = "loop"
  /\ maxAttempts \in 0..MaxAttempts
  /\ delayMs \in Delays
  /\ attempt = 1
  /\ lastError = "undefined"
  /\ retryLog = <<>>
  /\ retryOutcome = NoOutcome

\* lines 260-262: attempt <= maxAttempts, fn is called and awaited
RetryCallsFn ==
  /\ retryPc = "loop"
  /\ attempt <= maxAttempts
  /\ retryLog' = Append(retryLog, Event("call", 0, ""))
  /\ retryPc' = "awaiting"
  /\ UNCHANGED <<maxAttempts, delayMs, attempt, lastError, retryOutcome,
                 pipeVars, pureVars, feedbackVars, dbVars>>

\* line 262: fn resolved, retry returns its value
FnResolves ==
  /\ retryPc = "awaiting"
  /\ \E v \in FnValues :
       /\ retryLog' = Append(retryLog, Event("resolved", 0, v))
       /\ retryOutcome' = [kind |-> "returned", value |-> v]
  /\ retryPc' = "done"
  /\ UNCHANGED <<maxAttempts, delayMs, attempt, lastError,
                 pipeVars, pureVars, feedbackVars, dbVars>>

\* lines 263-269: fn rejected (or threw); the error is kept; when another
\* attempt follows the backoff sleep is started, otherwise the loop goes on
FnRejects ==
  /\ retryPc = "awaiting"
  /\ \E err \in FnErrors :
       /\ lastError' = err
       /\ IF SleepsAfter(attempt, maxAttempts)
          THEN /\ retryLog' = retryLog \o <<Event("rejected", 0, err),
                                            Event("sleep", backoffDelay(delayMs, attempt), "")>>
               /\ retryPc' = "sleeping"
               /\ UNCHANGED attempt
          ELSE /\ retryLog' = Append(retryLog, Event("rejected", 0, err))
               /\ retryPc' = "loop"
               /\ attempt' = attempt + 1
  /\ UNCHANGED <<maxAttempts, delayMs, retryOutcome,
                 pipeVars, pureVars, feedbackVars, dbVars>>

\* line 268 resolves: the next iteration
SleepEnds ==
  /\ retryPc = "sleeping"
  /\ attempt' = attempt + 1
  /\ retryPc' = "loop"
  /\ UNCHANGED <<maxAttempts, delayMs, lastError, retryLog, retryOutcome,
                 pipeVars, pureVars, feedbackVars, dbVars>>

\* line 273: the loop is over, retry throws lastError
RetryThrows ==
  /\ retryPc = "loop"
  /\ attempt > maxAttempts
  /\ retryOutcome' = [kind |-> "threw", value |-> lastError]
  /\ retryPc' = "done"
  /\ UNCHANGED <<maxAttempts, delayMs, attempt, lastError, retryLog,
                 pipeVars, pureVars, feedbackVars, dbVars>>

RetryNext ==
  \/ RetryCallsFn
  \/ FnResolves
  \/ FnRejects
  \/ SleepEnds
  \/ RetryThrows

RetrySpec == RetryInit /\ [][RetryNext]_vars

\* ------------------------------------------------------ connectToDatabase
\* process.env.MONGODB_URI || '' (line 9): unset or set
Uris == {"", "mongodb://host"}

DbInit ==
  /\ PipeInit
  /\ request = "image"
  /\ PureIdle
  /\ FeedbackIdle
  /\ RetryIdle
  /\ uri \in Uris
  /\ cachedClient = 0
  /\ cachedDb = 0
  /\ dbCall = [c \in Callers |-> NotCalled]
  /\ created = 0
  /\ closePc = "idle"
  /\ closes = 0

\* lines 20-22: both caches are set, the call returns them
ReturnCached(c) ==
  /\ dbCall[c].pc = "idle"
  /\ cachedClient # 0 /\ cachedDb # 0
  /\ dbCall' = [dbCall EXCEPT ![c] = [pc |-> "returned", client |-> 0, returned |-> cachedClient]]
  /\ UNCHANGED <<uri, cachedClient, cachedDb, created, closePc, closes,
                 pipeVars, pureVars, feedbackVars, retryVars>>

\* lines 24-26: nothing cached and no URI, the call throws
ThrowNoUri(c) ==
  /\ dbCall[c].pc = "idle"
  /\ ~(cachedClient # 0 /\ cachedDb # 0)
  /\ uri = ""
  /\ dbCall' = [dbCall EXCEPT ![c] = [pc |-> "threw", client |-> 0, returned |-> 0]]
  /\ UNCHANGED <<uri, cachedClient, cachedDb, created, closePc, closes,
                 pipeVars, pureVars, feedbackVars, retryVars>>

\* lines 29-36: nothing cached, a new MongoClient is made and the call waits
\* for client.connect()
CreateClient(c) ==
  /\ dbCall[c].pc = "idle"
  /\ ~(cachedClient # 0 /\ cachedDb # 0)
  /\ uri # ""
  /\ created' = created + 1
  /\ dbCall' = [dbCall EXCEPT ![c] = [pc |-> "connecting", client |-> created + 1, returned |-> 0]]
  /\ UNCHANGED <<uri, cachedClient, cachedDb, closePc, closes,
                 pipeVars, pureVars, feedbackVars, retryVars>>

\* lines 36-45: connect resolved; the call caches its own client and that
\* client's db, and returns them
ConnectResolves(c) ==
  /\ dbCall[c].pc = "connecting"
  /\ cachedClient' = dbCall[c].client
  /\ cachedDb' = dbCall[c].client
  /\ dbCall' = [dbCall EXCEPT ![c].pc = "returned", ![c].returned = dbCall[c].client]
  /\ UNCHANGED <<uri, created, closePc, closes,
                 pipeVars, pureVars, feedbackVars, retryVars>>

\* line 36: connect rejected; the call throws with nothing cached by it
ConnectRejects(c) ==
  /\ dbCall[c].pc = "connecting"
  /\ dbCall' = [dbCall EXCEPT ![c].pc = "threw"]
  /\ UNCHANGED <<uri, cachedClient, cachedDb, created, closePc, closes,
                 pipeVars, pureVars, feedbackVars, retryVars>>

\* lines 55-57: closeDatabaseConnection with a cached client waits for close()
CloseStarts ==
  /\ closePc = "idle"
  /\ closes < MaxCloses
  /\ cachedClient # 0
  /\ closePc' = "closing"
  /\ closes' = closes + 1
  /\ UNCHANGED <<uri, cachedClient, cachedDb, dbCall, created,
                 pipeVars, pureVars, feedbackVars, retryVars>>

\* lines 56, 61: closeDatabaseConnection with no cached client does nothing
CloseNothing ==
  /\ closePc = "idle"
  /\ closes < MaxCloses
  /\ cachedClient = 0
  /\ closes' = closes + 1
  /\ UNCHANGED <<uri, cachedClient, cachedDb, dbCall, created, closePc,
                 pipeVars, pureVars, feedbackVars, retryVars>>

\* lines 58-59: close() is over, both caches are cleared
CloseEnds ==
  /\ closePc = "closing"
  /\ cachedClient' = 0
  /\ cachedDb' = 0
  /\ closePc' = "idle"
  /\ UNCHANGED <<uri, dbCall, created, closes,
                 pipeVars, pureVars, feedbackVars, retryVars>>

DbNext ==
  \/ \E c \in Callers : ReturnCached(c)
  \/ \E c \in Callers : ThrowNoUri(c)
  \/ \E c \in Callers : CreateClient(c)
  \/ \E c \in Callers : ConnectResolves(c)
  \/ \E c \in Callers : ConnectRejects(c)
  \/ CloseStarts
  \/ CloseNothing
  \/ CloseEnds

DbSpec == DbInit /\ [][DbNext]_vars

\* ================================================================ claims
StageRank(s) ==
  IF s = "recognition" THEN 1
  ELSE IF s = "estimation" THEN 2
  ELSE IF s = "reflection" THEN 3
  ELSE 4

\* C1: when the confidence filter leaves no recognised item, the handler is
\* over with the 422 rejection that carries the filter's warnings, and
\* estimation, aggregation, reflection, nudge generation and evaluation were
\* never invoked.
C1_RejectionHalts ==
  (callState["recognition"] = "ok" /\ recognizedItems = <<>>) =>
    /\ pc = "done"
    /\ response.status = 422
    /\ response.warnings = warnings
    /\ response.analysis = <<>>
    /\ response.totals = <<>>
    /\ \A c \in (Stages \ {"recognition"}) \cup Judges :
         calls[c] = 0 /\ (c \in Stages => callState[c] = "idle")
    /\ nutritionEstimates = <<>> /\ reflectionPrompts = <<>> /\ habitNudges = <<>>
    /\ analysisResult = <<>>
    /\ evalPc = "none"

\* a rejection of a reply whose items are all below the threshold
C1_Witness ==
  /\ response.status = 422
  /\ Len(lowConfidenceItems) = 2
  /\ recognizedItems = <<>>

\* C2: when a generative stage fails, the request ends with the 500 response
\* (generic error plus details), no AnalysisResult is returned, no stage after
\* the failing one was invoked and evaluation was never started.
C2_StageFailureAborts ==
  \A s \in Stages :
    callState[s] = "failed" =>
      /\ pc = "done"
      /\ response.status = 500
      /\ response.error = "Failed to analyze image"
      /\ response.details # ""
      /\ response.analysis = <<>>
      /\ response.totals = <<>>
      /\ analysisResult = <<>>
      /\ \A t \in Stages : StageRank(t) > StageRank(s) => calls[t] = 0
      /\ \A j \in Judges : calls[j] = 0 /\ judge[j].state = "idle"
      /\ evalPc = "none"

\* nudge generation, the last stage, failed after three stages had succeeded
C2_Witness ==
  /\ callState["nudge"] = "failed"
  /\ Len(reflectionPrompts) > 0
  /\ Len(nutritionEstimates) > 0
  /\ response.status = 500

InUnit(x) == x.k = "num" /\ 0 <= x.n /\ x.n <= ONE

\* each ranged field of an estimate, raw and as returned (fiber when present)
RangePairs(raw, out) ==
  {<<raw.calories, out.calories>>, <<raw.protein, out.protein>>,
   <<raw.carbs, out.carbs>>, <<raw.fat, out.fat>>}
    \cup {<<raw.fiber[i], out.fiber[i]>> : i \in 1..Len(out.fiber)}

\* C3: every ranged field of every estimate estimateNutrition returns has
\* min >= 0 and max >= min, and its max is the larger of the floored min and
\* the raw max.
C3_RangesOrdered ==
  (pureOp = "estimate" /\ pureOut # <<>>) =>
    \A i \in 1..Len(pureOut[1].value) :
      \A pair \in RangePairs(pureIn.payload[i], pureOut[1].value[i]) :
        LET raw == pair[1]
            out == pair[2]
        IN  /\ JsGe(out.min, Num(0))
            /\ JsGe(out.max, out.min)
            /\ out.max = MathMax(out.min, raw.max)

\* C4: every confidence-like value that leaves a stage (item confidence,
\* calorie confidence, prompt relevance) lies in [0,1].
C4_ConfidencesInUnit ==
  pureOut # <<>> =>
    /\ pureOp = "recognize" =>
         \A i \in 1..Len(pureOut[1].value) : InUnit(pureOut[1].value[i].confidence)
    /\ pureOp = "estimate" =>
         \A i \in 1..Len(pureOut[1].value) :
           InUnit(pureOut[1].value[i].calories.confidence)
    /\ pureOp = "reflect" =>
         \A i \in 1..Len(pureOut[1].value) : InUnit(pureOut[1].value[i].relevance)

\* C5: once the four generative stages have succeeded the success response is
\* returned, whether or not any judge call or the metrics logging ever
\* completes (no fairness is assumed of the judges or of the flush).
C5_ReturnsWithoutEvaluation ==
  (callState["nudge"] = "ok") ~> (response.status = 200)

\* the response is out while all three judge calls are still in flight
C5_Witness ==
  /\ response.status = 200
  /\ pc = "done"
  /\ evalPc = "judging"
  /\ \A j \in Judges : judge[j].state = "inflight"

\* C6 as stated: no judge call is started before the handler has produced
\* the response.
C6_NoJudgeBeforeResponse ==
  (\E j \in Judges : calls[j] > 0) => response.status # 0

\* C6 as amended: the judge calls are issued only once the AnalysisResult is
\* assembled, in the handler's last synchronous segment before it produces
\* the response; no judge call settles, and no metric is computed or logged,
\* before the response has been produced.
C6_EvaluationSettlesAfterResponse ==
  /\ (\E j \in Judges : calls[j] > 0) =>
       /\ analysisResult # <<>>
       /\ \A s \in Stages : callState[s] = "ok"
       /\ pc \in {"evaluationStarted", "done"}
  /\ (\E j \in Judges : judge[j].state \in {"threw", "replied"}) => response.status = 200
  /\ (metrics # <<>> \/ evalPc \in {"logging", "logged", "caught", "rejected"}) =>
       response.status = 200

\* a judge has answered, after the response
C6_Witness ==
  /\ response.status = 200
  /\ judge["clarity"].state = "replied"
  /\ judge["hallucination"].state = "inflight"

\* C7: whatever fails in evaluation, no error leaves evaluateAndLog, no judge
\* call is repeated, and neither the response nor the AnalysisResult changes
\* once produced; the success response is the one assembled before evaluation.
C7_EvaluationContained ==
  /\ [](/\ evalPc # "rejected"
        /\ \A j \in Judges : calls[j] <= 1
        /\ response.status = 200 =>
             /\ response.analysis = analysisResult
             /\ response.totals = <<calculateTotalNutrition(nutritionEstimates)>>)
  /\ [][/\ response.status # 0 => response' = response
        /\ analysisResult # <<>> => analysisResult' = analysisResult]_vars

\* evaluation failed (a judge threw and the logging failed) after a success
C7_Witness ==
  /\ evalPc = "caught"
  /\ response.status = 200
  /\ \E j \in Judges : judge[j].state = "threw"

MetricOf(m, j) ==
  IF j = "hallucination" THEN m.hallucinationScore
  ELSE IF j = "clarity" THEN m.clarityScore
  ELSE m.toneScore

\* C9: when a judge call throws, its metric is 0.5, the other metrics are the
\* values their own judges gave, overallQuality is the mean of the three, and
\* evaluateAnalysis returns its metrics (evaluation fails only in logging).
C9_ThrowingJudgeIsNeutral ==
  /\ metrics # <<>> =>
       /\ \A j \in Judges :
            /\ judge[j].state = "threw" => MetricOf(metrics[1], j) = NeutralScore
            /\ judge[j].reply = JudgeNumber(12) => MetricOf(metrics[1], j) = 12
            /\ judge[j].reply = JudgeNumber(45) => MetricOf(metrics[1], j) = ONE
       /\ 3 * metrics[1].overallQuality =
            metrics[1].hallucinationScore + metrics[1].clarityScore + metrics[1].toneScore
  /\ evalPc \in {"logging", "logged", "caught", "rejected"} => metrics # <<>>
  /\ (evalPc = "judging" /\ \A j \in Judges : judge[j].state \in {"threw", "replied"})
       => ENABLED EvaluationResumes

\* scenario F: the hallucination judge threw, the other two answered
C9_Witness ==
  /\ metrics # <<>>
  /\ judge["hallucination"].state = "threw"
  /\ judge["clarity"].reply = JudgeNumber(12)
  /\ judge["toneSafety"].reply = JudgeNumber(45)
  /\ metrics[1].overallQuality = 19

PositionIn(s, x) == CHOOSE i \in 1..Len(s) : s[i] = x
Elements(s) == {s[i] : i \in 1..Len(s)}
InOrderOf(all, part) ==
  \A k, l \in 1..Len(part) : k < l => PositionIn(all, part[k]) < PositionIn(all, part[l])

\* C10: the confidence filter is a partition: recognizedItems holds exactly
\* the items with confidence >= threshold, lowConfidenceItems exactly those
\* below it, each input item is in exactly one of them, once, and both lists
\* keep the input order.
C10_FilterPartitions ==
  (pureOp = "filter" /\ pureOut # <<>>) =>
    LET all == pureIn.items
        t == pureIn.minConfidence.n
        rec == pureOut[1].recognizedItems
        low == pureOut[1].lowConfidenceItems
    IN  /\ Elements(rec) = {x \in Elements(all) : x.confidence.n >= t}
        /\ Elements(low) = {x \in Elements(all) : x.confidence.n < t}
        /\ Len(rec) + Len(low) = Len(all)
        /\ Elements(rec) \cap Elements(low) = {}
        /\ InOrderOf(all, rec)
        /\ InOrderOf(all, low)

\* the middle item is below the threshold, the first sits exactly on it
C10_Witness ==
  /\ pureOp = "filter" /\ pureOut # <<>>
  /\ Len(pureIn.items) = 3
  /\ pureIn.items[1].confidence = pureIn.minConfidence
  /\ pureOut[1].recognizedItems = <<pureIn.items[1], pureIn.items[3]>>
  /\ pureOut[1].lowConfidenceItems = <<pureIn.items[2]>>

\* the place of a warning among the three rules
WarningRank(w) ==
  IF w.msg = "low confidence" THEN 1
  ELSE IF w.msg = "all low confidence" THEN 2
  ELSE 3

\* C11: the warnings of the confidence filter are fixed by three rules and
\* hold nothing else: the low-confidence message with n = the number of
\* low-confidence items iff there is such an item; the all-low message iff no
\* item was recognised and the original list is non-empty; the no-items
\* message iff the original list is empty; each at most once, in that order.
C11_WarningsDetermined ==
  (pureOp = "filter" /\ pureOut # <<>>) =>
    LET all == pureIn.items
        rec == pureOut[1].recognizedItems
        low == pureOut[1].lowConfidenceItems
        w == pureOut[1].warnings
    IN  /\ \A n \in 0..(Len(all) + 1) :
             (LowConfidenceWarning(n) \in Elements(w)) <=> (Len(low) > 0 /\ n = Len(low))
        /\ (AllLowWarning \in Elements(w)) <=> (Len(rec) = 0 /\ Len(all) > 0)
        /\ (NoItemsWarning \in Elements(w)) <=> (Len(all) = 0)
        /\ Elements(w) \subseteq
             {LowConfidenceWarning(n) : n \in 0..(Len(all) + 1)}
               \cup {AllLowWarning, NoItemsWarning}
        /\ Cardinality(Elements(w)) = Len(w)
        /\ \A k, l \in 1..Len(w) : k < l => WarningRank(w[k]) < WarningRank(w[l])

\* three items, all below the threshold: two warnings, in the order of the rules
C11_Witness ==
  /\ pureOp = "filter" /\ pureOut # <<>>
  /\ Len(pureIn.items) = 3
  /\ pureOut[1].recognizedItems = <<>>
  /\ pureOut[1].warnings = <<LowConfidenceWarning(3), AllLowWarning>>

\* the permutations of 1..n, and a list in the order a permutation gives
OrdersOf(n) == {f \in [1..n -> 1..n] : \A i, j \in 1..n : f[i] = f[j] => i = j}
Permuted(s, f) == [i \in 1..Len(s) |-> s[f[i]]]

\* the sum of numbers that are not negative, exactly (no rounding)
ExactAdd(a, b) ==
  IF ~IsNum(a) \/ ~IsNum(b) THEN NaN
  ELSE LET al == Aligned(a, b) IN Canonical(AddBits(al.a, al.b, 0), al.e)

RECURSIVE ExactSum(_)
ExactSum(s) == IF s = <<>> THEN Num(0) ELSE ExactAdd(Head(s), ExactSum(Tail(s)))

Macros == {"calories", "protein", "carbs", "fat"}
TotalOf(totals, macro) ==
  IF macro = "calories" THEN totals.totalCalories
  ELSE IF macro = "protein" THEN totals.totalProtein
  ELSE IF macro = "carbs" THEN totals.totalCarbs
  ELSE totals.totalFat
MinsOf(estimates, macro) == [i \in 1..Len(estimates) |-> estimates[i][macro].min]
MaxesOf(estimates, macro) == [i \in 1..Len(estimates) |-> estimates[i][macro].max]
AllIntegers(s) == \A i \in 1..Len(s) : s[i].k = "num"
ZeroRange == [min |-> Num(0), max |-> Num(0)]

\* the empty list gives all-zero totals and averageConfidence 0
EmptyTotalsZero(estimates, totals) ==
  estimates = <<>> =>
    /\ \A macro \in Macros : TotalOf(totals, macro) = ZeroRange
    /\ totals.averageConfidence = Quotient(Num(0), 1)

\* C12 as stated: for every estimate list and every macro, total.min is
\* exactly the sum of the items' min values and total.max exactly the sum of
\* their max values, every permutation of the list gives the same totals, and
\* the empty list gives all-zero totals and averageConfidence 0.
C12_TotalsExactInAnyOrder ==
  (pureOp = "total" /\ pureOut # <<>>) =>
    /\ \A macro \in Macros :
         /\ TotalOf(pureOut[1], macro).min = ExactSum(MinsOf(pureIn, macro))
         /\ TotalOf(pureOut[1], macro).max = ExactSum(MaxesOf(pureIn, macro))
    /\ \A f \in OrdersOf(Len(pureIn)) :
         calculateTotalNutrition(Permuted(pureIn, f)) = pureOut[1]
    /\ EmptyTotalsZero(pureIn, pureOut[1])

\* C12 as amended: the totals are sums in double-precision arithmetic, taken
\* left to right.  A bound of a macro whose values are all integers totals
\* exactly their sum, in every order of the list; a list of at most two
\* estimates gives the same totals in either order; the empty list gives
\* all-zero totals and averageConfidence 0.
C12_TotalsAdditive ==
  (pureOp = "total" /\ pureOut # <<>>) =>
    /\ \A macro \in Macros :
         /\ AllIntegers(MinsOf(pureIn, macro)) =>
              TotalOf(pureOut[1], macro).min = ExactSum(MinsOf(pureIn, macro))
         /\ AllIntegers(MaxesOf(pureIn, macro)) =>
              TotalOf(pureOut[1], macro).max = ExactSum(MaxesOf(pureIn, macro))
    /\ \A f \in OrdersOf(Len(pureIn)) :
         LET reordered == calculateTotalNutrition(Permuted(pureIn, f))
         IN  /\ \A macro \in Macros :
                  /\ AllIntegers(MinsOf(pureIn, macro)) =>
                       TotalOf(reordered, macro).min = TotalOf(pureOut[1], macro).min
                  /\ AllIntegers(MaxesOf(pureIn, macro)) =>
                       TotalOf(reordered, macro).max = TotalOf(pureOut[1], macro).max
             /\ Len(pureIn) <= 2 => reordered = pureOut[1]
    /\ EmptyTotalsZero(pureIn, pureOut[1])

\* the aggregation scenario: calories 100-120 and 200-250 total 300-370
C12_Witness ==
  /\ pureOp = "total" /\ pureOut # <<>>
  /\ Len(pureIn) = 2
  /\ pureIn[1].calories.min = Num(100) /\ pureIn[2].calories.max = Num(250)
  /\ pureOut[1].totalCalories = [min |-> Num(300), max |-> Num(370)]

\* C13: in every returned AnalysisResult habitNudges holds at most 3 entries,
\* the reinforcement entry included, and reflectionPrompts at most 5.
C13_ListsCapped ==
  response.status = 200 =>
    /\ Len(response.analysis[1].habitNudges) <= NudgeCap
    /\ Len(response.analysis[1].reflectionPrompts) <= PromptCap

\* C14: in every returned AnalysisResult nutritionEstimates is as long as
\* foodItems and its i-th estimate belongs to the i-th food item, whatever
\* list the estimation call returned.
C14_EstimatesAligned ==
  response.status = 200 =>
    LET result == response.analysis[1]
    IN  /\ Len(result.nutritionEstimates) = Len(result.foodItems)
        /\ \A i \in 1..Len(result.nutritionEstimates) :
             /\ i <= Len(result.foodItems)
             /\ result.nutritionEstimates[i].foodItem = result.foodItems[i].name

\* C15: a failure of a tracing call itself is not fatal: when the inference
\* work of a stage succeeded and only the update, the end or the flush of its
\* trace failed, the stage has not failed and the request does not end with
\* the 500 response.
C15_TracingNonFatal ==
  \A s \in Stages :
    tracing[s] = "endFailed" =>
      /\ callState[s] # "failed"
      /\ response.status # 500

\* a call that has settled: a stage call that returned or failed, a judge call
\* that answered or threw
HasSettled(c) ==
  IF c \in Stages THEN callState[c] \in {"ok", "failed"}
  ELSE judge[c].state \in {"threw", "replied"}

\* C16: there is no retry: within one request each inference call (the four
\* stages and the three judges) is issued at most once, and no call is issued
\* again once it has settled, whether it or any other call failed; once the
\* request has ended in an error no call is issued at all.
C16_NoRetry ==
  /\ [](\A c \in Stages \cup Judges : calls[c] <= 1)
  /\ [][/\ \A c \in Stages \cup Judges : HasSettled(c) => calls'[c] = calls[c]
        /\ response.status \in {400, 422, 500} => calls' = calls]_vars

\* all seven calls were issued once, one judge threw and nothing was repeated
C16_Witness ==
  /\ \A c \in Stages \cup Judges : calls[c] = 1
  /\ judge["clarity"].state = "threw"
  /\ judge["toneSafety"].state = "replied"
  /\ evalPc \in {"logged", "caught"}

\* a body that is an object with a non-empty string as its analysisId
CarriesAnalysisId(body) ==
  /\ body.kind = "object"
  /\ body.analysisId \in {[k |-> "str", s |-> id] : id \in {"analysis_1", "analysis_2"}}

\* C17: a feedback submission without analysisId (absent, null or empty) is
\* answered 400 'Analysis ID is required' and nothing is logged for it:
\* logFeedback is never invoked and no feedback trace is created.  (A body
\* that does not parse to an object is answered 500, before any logging too.)
C17_MissingIdRejectedUnlogged ==
  /\ (fbPc # "none" /\ (fbBody.kind # "object" \/ ~CarriesAnalysisId(fbBody))) =>
       /\ fbLog = NothingLogged
       /\ fbPc \in {"received", "done"}
  /\ (fbPc = "done" /\ fbBody.kind = "object" /\ ~CarriesAnalysisId(fbBody)) =>
       /\ fbResponse.status = 400
       /\ fbResponse.error = "Analysis ID is required"
       /\ ~fbResponse.success /\ ~fbResponse.feedbackId

\* a body with every optional field and no analysisId was rejected
C17_Witness ==
  /\ fbPc = "done"
  /\ fbBody.kind = "object"
  /\ fbBody.analysisId.k = "undef"
  /\ fbBody.fields = OptionalFields
  /\ fbResponse.status = 400

\* C18: a submission that carries an analysisId returns success with a
\* feedbackId, whatever optional fields it holds, whether or not an analysis
\* with that id exists, and also when the tracing calls of logFeedback fail;
\* the handler always gets to its response.
C18_FeedbackSucceeds ==
  (fbPc # "none" /\ fbBody.kind = "object" /\ CarriesAnalysisId(fbBody)) =>
    /\ fbPc # "thrown"
    /\ fbResponse.status \in {0, 200}
    /\ fbPc = "done" =>
         /\ fbResponse.status = 200
         /\ fbResponse.success /\ fbResponse.feedbackId
         /\ fbLog.invoked = 1
    /\ fbPc \in {"received", "logged"} => ENABLED FeedbackNext

\* feedback for an analysis that does not exist, with no optional field, was
\* accepted although the flush of the tracing client rejected
C18_Witness ==
  /\ fbPc = "done"
  /\ fbBody.kind = "object"
  /\ fbBody.analysisId.s \notin StoredAnalyses
  /\ fbBody.fields = {}
  /\ fbLog = [invoked |-> 1, traces |-> 1, caught |-> 1]
  /\ fbResponse.status = 200 /\ fbResponse.feedbackId

StructuredOnceStripped(reply) ==
  /\ reply.kind = "array"
  /\ reply.fence \in {"none", "json", "plain"}

\* C20: a generative stage whose inference call returns content that is no
\* valid structured data once the fenced-block framing is stripped (empty and
\* absent content included) fails with an error: it never returns an empty
\* list in place of the failure.
C20_UnstructuredReplyFails ==
  (pureOp \in {"recognize", "estimate", "reflect", "nudges"} /\ pureOut # <<>>
     /\ ~StructuredOnceStripped(pureIn)) =>
    pureOut[1].threw

\* C21: every metric evaluateAnalysis produces (hallucinationScore,
\* clarityScore, toneScore, confidenceCalibration, overallQuality) lies in
\* [0,1], whatever the three judges do: a reply above 1 or below 0, a reply
\* that is no number, an absent reply, or a call that throws.
MetricNames ==
  {"hallucinationScore", "clarityScore", "toneScore", "confidenceCalibration",
   "overallQuality"}

C21_MetricsInUnit ==
  (pureOp = "evaluate" /\ pureOut # <<>>) =>
    \A m \in MetricNames : 0 <= pureOut[1][m] /\ pureOut[1][m] <= ONE

\* one judge answers 1.5, one answers -0.1, one throws
C21_Witness ==
  /\ pureOp = "evaluate" /\ pureOut # <<>>
  /\ pureIn = <<JudgeNumber(45), JudgeNumber(-3), JudgeThrows>>
  /\ pureOut[1].hallucinationScore = ONE
  /\ pureOut[1].clarityScore = 0
  /\ pureOut[1].toneScore = NeutralScore

\* C22: the confidence filter is idempotent: applied with the same threshold to
\* the recognizedItems it returned, it returns that list unchanged as
\* recognizedItems and an empty lowConfidenceItems.
C22_FilterIdempotent ==
  (pureOp = "refilter" /\ pureOut # <<>>) =>
    /\ pureOut[1].second.recognizedItems = pureOut[1].first.recognizedItems
    /\ pureOut[1].second.lowConfidenceItems = <<>>

\* the first pass dropped an item and kept one that sits on the threshold
C22_Witness ==
  /\ pureOp = "refilter" /\ pureOut # <<>>
  /\ pureOut[1].first.lowConfidenceItems # <<>>
  /\ Len(pureOut[1].first.recognizedItems) = 2
  /\ pureOut[1].first.recognizedItems[1].confidence = pureIn.minConfidence
  /\ pureOut[1].second.recognizedItems = pureOut[1].first.recognizedItems

\* C23: the deterministic reinforcement nudge is produced exactly when the
\* items span 4 or more distinct categories (variety score at least 0.8) or
\* hold both a vegetable and a fruit; when produced it is one nudge of type
\* positive with actionable false; producing it issues no inference call.
DistinctCategories(items) == Cardinality({items[i].category : i \in 1..Len(items)})
HasCategory(items, c) == \E i \in 1..Len(items) : items[i].category = c

C23_ReinforcementRule ==
  (pureOp = "reinforce" /\ pureOut # <<>>) =>
    /\ pureOut[1] # <<>> <=>
         \/ DistinctCategories(pureIn) >= 4
         \/ HasCategory(pureIn, "vegetable") /\ HasCategory(pureIn, "fruit")
    /\ pureOut[1] # <<>> =>
         /\ Len(pureOut[1]) = 1
         /\ pureOut[1][1].type = "positive"
         /\ pureOut[1][1].actionable = FALSE
    /\ \A c \in DOMAIN calls : calls[c] = 0

\* exactly four categories, no fruit among them: the score is 4 * 0.2
C23_Witness ==
  /\ pureOp = "reinforce" /\ pureOut # <<>>
  /\ DistinctCategories(pureIn) = 4
  /\ ~HasCategory(pureIn, "fruit")
  /\ pureOut[1] = <<VarietyNudge>>

\* C24: the final habitNudges list is the deterministic reinforcement nudge,
\* when one is produced, followed by the generative nudges in the order the
\* nudge stage returned them: the deterministic nudge is first, and no
\* generative nudge is moved, dropped or removed as a duplicate of it.
C24_ReinforcementFirst ==
  (pureOp = "prepend" /\ pureOut # <<>>) =>
    LET final == pureOut[1]
        generated == pureIn.nudges
        k == Len(final) - Len(generated)
        earned == \/ DistinctCategories(pureIn.items) >= 4
                  \/ HasCategory(pureIn.items, "vegetable")
                       /\ HasCategory(pureIn.items, "fruit")
    IN  /\ k = (IF earned THEN 1 ELSE 0)
        /\ \A i \in 1..Len(generated) : final[i + k] = generated[i]
        /\ earned => final[1] \in {VarietyNudge, VegFruitNudge}

\* scenario E: vegetable and fruit, variety below 0.8; the stage had returned
\* the same nudge and one more
C24_Witness ==
  /\ pureOp = "prepend" /\ pureOut # <<>>
  /\ DistinctCategories(pureIn.items) = 2
  /\ Len(pureIn.nudges) = 2
  /\ pureIn.nudges[1] = VegFruitNudge
  /\ pureIn.nudges[2].message = "m2"
  /\ pureOut[1] = <<VegFruitNudge, VegFruitNudge, pureIn.nudges[2]>>

\* C25: every prompt generateReflectionPrompts returns has a category among
\* awareness, goals, habits and alternatives, a raw category that is missing or
\* is none of the four being replaced by awareness; and every nudge
\* generateHabitNudges returns for a raw nudge without type has type neutral.
KnownCategories == {"awareness", "goals", "habits", "alternatives"}

C25_CategoryAndTypeDefaults ==
  /\ (pureOp = "reflect" /\ pureOut # <<>> /\ ~pureOut[1].threw) =>
        \A i \in 1..Len(pureOut[1].value) :
          /\ pureOut[1].value[i].category \in KnownCategories
          /\ pureIn.payload[i].category \notin KnownCategories =>
               pureOut[1].value[i].category = "awareness"
  /\ (pureOp = "nudges" /\ pureOut # <<>> /\ ~pureOut[1].threw) =>
        \A i \in 1..Len(pureOut[1].value) :
          pureIn.payload[i].type = "" => pureOut[1].value[i].type = "neutral"

\* C26: retry calls fn at most maxAttempts times; it returns the result of the
\* first successful attempt and calls nothing after it; after the k-th failed
\* attempt it waits delayMs * 2^(k-1), and only if another attempt follows;
\* when all maxAttempts attempts fail it throws the error of the last one.
EventsOf(e) == {p \in 1..Len(retryLog) : retryLog[p].e = e}
FailuresUpTo(p) == Cardinality({q \in EventsOf("rejected") : q <= p})

C26_RetryBacksOff ==
  /\ Cardinality(EventsOf("call")) <= maxAttempts
  /\ \A p \in EventsOf("resolved") :
       /\ p = Len(retryLog)
       /\ retryOutcome = [kind |-> "returned", value |-> retryLog[p].what]
  /\ retryOutcome.kind = "returned" => EventsOf("resolved") # {}
  /\ \A p \in EventsOf("call") : p = 1 \/ retryLog[p - 1].e = "sleep"
  /\ \A p \in EventsOf("sleep") :
       /\ retryLog[p - 1].e = "rejected"
       /\ retryLog[p].ms = delayMs * 2 ^ (FailuresUpTo(p) - 1)
       /\ FailuresUpTo(p) < maxAttempts
  /\ \A p \in EventsOf("rejected") :
       FailuresUpTo(p) < maxAttempts => (p < Len(retryLog) /\ retryLog[p + 1].e = "sleep")
  /\ (retryOutcome.kind = "threw" /\ maxAttempts >= 1) =>
       /\ Cardinality(EventsOf("rejected")) = maxAttempts
       /\ retryLog[Len(retryLog)].e = "rejected"
       /\ retryOutcome.value = retryLog[Len(retryLog)].what

\* three attempts fail: two sleeps, of delayMs and 2 * delayMs, none after the
\* third failure, whose error is thrown
C26_Witness ==
  /\ retryPc = "done"
  /\ maxAttempts = 3 /\ delayMs = 1000
  /\ retryOutcome = [kind |-> "threw", value |-> "e2"]
  /\ [p \in 1..Len(retryLog) |-> retryLog[p].e]
       = <<"call", "rejected", "sleep", "call", "rejected", "sleep", "call", "rejected">>
  /\ retryLog[3].ms = 1000 /\ retryLog[6].ms = 2000
  /\ retryLog[2].what = "e1" /\ retryLog[8].what = "e2"

\* C27 as stated: in every success response overallConfidence is the mean of
\* the confidences of foodItems and lies in [0.3, 1]; foodItems is not empty
\* and each of its confidences is at least 0.3 and at most 1.
ConfidencesInRange(items) ==
  \A i \in 1..Len(items) :
    NumGe(items[i].confidence, ThreeTenths) /\ NumGe(Num(1), items[i].confidence)

C27_OverallConfidenceInRange ==
  (pureOp = "overall" /\ pureOut # <<>> /\ ~pureOut[1].rejected) =>
    /\ pureOut[1].foodItems # <<>>
    /\ ConfidencesInRange(pureOut[1].foodItems)
    /\ NumGe(pureOut[1].overallConfidence, ThreeTenths)
    /\ NumGe(Num(1), pureOut[1].overallConfidence)

\* x * 2^k and n * x, exactly
Scaled(x, k) == Dbl(Parts(x).m, Parts(x).e + k)
ExactTimes(n, x) == Dbl(TimesBits(n, Parts(x).m), Parts(x).e)

\* C27, amended: a success response is reached only with a foodItems list that
\* is not empty and whose confidences all lie in [0.3, 1]; overallConfidence is
\* the left-to-right double sum of these confidences divided by their number
\* n: it is a number, at most 1, at least 0.3 * (1 - n * 2^-52), and equal
\* to the confidence of the item when there is one item.
C27_OverallConfidenceRounded ==
  (pureOp = "overall" /\ pureOut # <<>>) =>
    LET items == pureOut[1].foodItems
        overall == pureOut[1].overallConfidence
        n == Len(items)
    IN  /\ pureOut[1].rejected <=>
             ~\E i \in 1..Len(pureIn) : NumGe(pureIn[i].confidence, ThreeTenths)
        /\ ~pureOut[1].rejected =>
             /\ items # <<>>
             /\ ConfidencesInRange(items)
             /\ IsNum(overall)
             /\ NumGe(Num(1), overall)
             /\ NumGe(ExactAdd(Scaled(overall, 52), ExactTimes(n, ThreeTenths)),
                      Scaled(ThreeTenths, 52))
             /\ n = 1 => overall = items[1].confidence

\* ten items of confidence 0.3: the mean comes out as 0.29999999999999993,
\* that is 0x13333333333332 * 2^-54
C27_Witness ==
  /\ pureOp = "overall" /\ pureOut # <<>>
  /\ Len(pureOut[1].foodItems) = 10
  /\ \A i \in 1..10 : pureOut[1].foodItems[i].confidence = ThreeTenths
  /\ pureOut[1].overallConfidence
       = Canonical(BitsOfHex(<<2, 3, 3, 3, 3, 3, 3, 3, 3, 3, 3, 3, 3, 1>>), -54)

\* C28: in every success response analysis.warnings is present iff
\* lowConfidenceItems is present, and when present it holds exactly one
\* message, the low-confidence count message with the length of
\* lowConfidenceItems as its count; in every rejection response (no confident
\* item) the warnings list is not empty.
C28_WarningsMatchLowConfidence ==
  /\ response.status = 200 =>
       LET given == response.analysis[1].warnings
           low == response.lowConfidenceItems
       IN  /\ given # <<>> <=> low # <<>>
           /\ given # <<>> => given[1] = <<LowConfidenceWarning(Len(low[1]))>>
  /\ response.status = 422 => response.warnings # <<>>

\* a success response with one item of low confidence and its warning
C28_Witness ==
  /\ response.status = 200
  /\ response.lowConfidenceItems # <<>>
  /\ Len(response.lowConfidenceItems[1]) = 1
  /\ response.analysis[1].warnings = <<(<<LowConfidenceWarning(1)>>)>>

\* C29: sanitising a confidence-like score is the identity on values already
\* in range: a recognition confidence, a calorie confidence or a reflection
\* relevance that the reply holds inside [0,1], 0 and 1 included, is passed
\* on unchanged.
InRange(x) == IsNum(x) /\ NumGe(x, Num(0)) /\ NumGe(Num(ONE), x)

C29_ClampKeepsInRange ==
  (pureOp \in {"recognize", "estimate", "reflect"} /\ pureOut # <<>> /\ ~pureOut[1].threw) =>
    \A i \in 1..Len(pureOut[1].value) :
      LET raw == IF pureOp = "recognize" THEN pureIn.payload[i].confidence
                 ELSE IF pureOp = "estimate" THEN pureIn.payload[i].calories.confidence
                 ELSE pureIn.payload[i].relevance
          kept == IF pureOp = "recognize" THEN pureOut[1].value[i].confidence
                  ELSE IF pureOp = "estimate" THEN pureOut[1].value[i].calories.confidence
                  ELSE pureOut[1].value[i].relevance
      IN  InRange(raw) => kept = raw

\* C30: with no closeDatabaseConnection so far, at most one client was
\* created and connected, every call that returned returned that same client,
\* and cachedClient and cachedDb are both null or both set.
ConnectedClients ==
  {dbCall[c].client : c \in {d \in Callers : dbCall[d].pc = "returned" /\ dbCall[d].client # 0}}

ReturnedClients == {dbCall[c].returned : c \in {d \in Callers : dbCall[d].pc = "returned"}}

C30_OneClient ==
  /\ (cachedClient = 0) <=> (cachedDb = 0)
  /\ closes = 0 =>
       /\ Cardinality(ConnectedClients) <= 1
       /\ Cardinality(ReturnedClients) <= 1

\* the pairing of the two caches alone
C30_CachesPaired == (cachedClient = 0) <=> (cachedDb = 0)

====
